---- MODULE Spec2Model ----
(***************************************************************************)
(* A model of the nedb core: the storage layer's crash-safe rewrite and    *)
(* datafile integrity check (lib/storage.js), the index layer              *)
(* (lib/indexes.js), the executor (lib/executor.js), the update engine,    *)
(* comparison, matching and serialization (lib/model.js) and the cursor    *)
(* (lib/cursor.js).  Each subsystem has its own specification over its own *)
(* group of variables; the other groups stay at their initial value.       *)
(***************************************************************************)
EXTENDS Integers, Sequences, FiniteSets, TLC

VARIABLES
  \* ---- storage (SpecStorage) ----
  file,       \* the datafile `filename`:  [e |-> exists, c |-> content]
  temp,       \* the temp file `filename~`
  pc,         \* position of crashSafeWriteFile in its waterfall
  data,       \* the data argument of the running crashSafeWriteFile
  written,    \* number of characters of data already written to the temp file
  pre,        \* the datafile as it was when the running rewrite started
  crashedAt,  \* the position at which the process was killed ("none" if not)
  cbErr,      \* the error handed to the callback of the last finished call
  cbCount,    \* number of times the rewrite's callback has been called
  win,        \* process.platform is win32 / win64
  lastOp,     \* the last finished storage call
  ediPre,     \* the two files as they were before the last ensureDatafileIntegrity
  ediRun,     \* number of consecutive successful ensureDatafileIntegrity calls
  steps,      \* the steps of the rewrite that have ended: their fs calls, their error
  \* ---- index (SpecIndex) ----
  idxTree,    \* the index's tree: its <<key, document>> entries
  idxOptions, \* [unique, sparse]
  idxStored,  \* the documents given to the index and not removed since
  idxLast,    \* the last call: its arguments, its error, the tree before it
  \* ---- executor (SpecExecutor) ----
  exReady,    \* the executor's ready flag
  exBuffer,   \* tasks held until the database is loaded
  exQueue,    \* tasks waiting in the queue
  exInFlight, \* tasks started and not yet called back
  exOps,      \* the tasks pushed, in the order of the pushes
  exStarted,  \* tasks that have started
  exDone,     \* tasks that have called back
  exStore,    \* the writes applied to the datastore
  exSeen,     \* for each task, the writes it saw when it ran
  \* ---- modify (SpecModify) ----
  mObj,         \* the document given to modify
  mUpdateQuery, \* the update query given to modify, as the call has left it
  mQuery,       \* the query given to modify (undefined if none)
  mResult,      \* what modify gave (NotRun before the call)
  \* ---- cursor (SpecCursor) ----
  cCandidates,  \* the documents getCandidates gives, in the order of the scan
  cQuery,       \* the cursor's query
  cLimit,       \* _limit (undefined if not set)
  cSkip,        \* _skip (undefined if not set)
  cSort,        \* _sort (undefined if not set)
  cProjection,  \* _projection (undefined if not set)
  cOut,         \* what the last _exec gave its callback, and the projection it had
  \* ---- comparing and matching values (SpecCompare) ----
  cmpA,         \* a value of a document
  cmpB,         \* a second value, or the value of a query
  cmpC,         \* a third value
  cmpOut,       \* what the last function called gave
  \* ---- documents checked and serialized (SpecDocument) ----
  dDoc,         \* a document
  dOut          \* what the last function called on it gave

storageVars == <<file, temp, pc, data, written, pre, crashedAt, cbErr, cbCount,
                 win, lastOp, ediPre, ediRun, steps>>

indexVars == <<idxTree, idxOptions, idxStored, idxLast>>

executorVars == <<exReady, exBuffer, exQueue, exInFlight, exOps, exStarted, exDone,
                  exStore, exSeen>>

modifyVars == <<mObj, mUpdateQuery, mQuery, mResult>>

cursorVars == <<cCandidates, cQuery, cLimit, cSkip, cSort, cProjection, cOut>>

compareVars == <<cmpA, cmpB, cmpC, cmpOut>>

documentVars == <<dDoc, dOut>>

vars == <<storageVars, indexVars, executorVars, modifyVars, cursorVars, compareVars,
          documentVars>>

notStorageVars == <<indexVars, executorVars, modifyVars, cursorVars, compareVars, documentVars>>
notIndexVars == <<storageVars, executorVars, modifyVars, cursorVars, compareVars, documentVars>>
notExecutorVars == <<storageVars, indexVars, modifyVars, cursorVars, compareVars, documentVars>>
notModifyVars == <<storageVars, indexVars, executorVars, cursorVars, compareVars, documentVars>>
notCursorVars == <<storageVars, indexVars, executorVars, modifyVars, compareVars, documentVars>>
notCompareVars == <<storageVars, indexVars, executorVars, modifyVars, cursorVars, documentVars>>
notDocumentVars == <<storageVars, indexVars, executorVars, modifyVars, cursorVars,
                     compareVars>>

(***************************************************************************)
(* Bounds                                                                  *)
(***************************************************************************)
MaxLen == 2            \* longest file content
MaxStored == 2         \* most documents held by the index
MaxBatch == 2          \* longest array given to an index call
MaxOps == 4            \* most tasks pushed to the executor
MaxKeys == 1           \* most top-level keys of an update query

Chars == {"a", "b"}

RECURSIVE SeqsUpTo(_, _)
SeqsUpTo(S, n) ==
  IF n = 0 THEN {<<>>}
  ELSE LET shorter == SeqsUpTo(S, n - 1)
       IN  shorter \cup {Append(s, x) : s \in {t \in shorter : Len(t) = n - 1}, x \in S}

Distinct(seq) == \A i \in 1..Len(seq), j \in 1..Len(seq) : i # j => seq[i] # seq[j]

Contents == SeqsUpTo(Chars, MaxLen)

Absent == [e |-> FALSE, c |-> <<>>]
Holding(c) == [e |-> TRUE, c |-> c]

None == "none"

NoFiles == [file |-> Absent, temp |-> Absent]

\* The files of a run that does not use the storage
StorageParked ==
  /\ file = Absent /\ temp = Absent /\ pc = "idle" /\ data = <<>> /\ written = 0
  /\ pre = Absent /\ crashedAt = None /\ cbErr = None /\ cbCount = 0
  /\ win = FALSE /\ lastOp = None /\ ediPre = NoFiles /\ ediRun = 0 /\ steps = <<>>

\* The elements of an array
Range(seq) == {seq[i] : i \in 1..Len(seq)}

\* The arrays of at most n elements of S
RECURSIVE Batches(_, _)
Batches(S, n) ==
  IF n = 0 THEN {<<>>}
  ELSE LET shorter == Batches(S, n - 1)
       IN  shorter \cup {Append(b, x) : b \in {c \in shorter : Len(c) = n - 1}, x \in S}

(***************************************************************************)
(* Values of the document model (lib/model.js).  A value carries its       *)
(* JavaScript type in t.  A string is the rank of the string in the        *)
(* default string order, a date is its getTime(), an array is a sequence   *)
(* of values and an object a function from its keys to values.             *)
(***************************************************************************)
Undefined == [t |-> "undefined", v |-> 0]
Null      == [t |-> "null", v |-> 0]
Num(n)    == [t |-> "number", v |-> n]
Str(s)    == [t |-> "string", v |-> s]
Bool(b)   == [t |-> "boolean", v |-> b]
Date(n)   == [t |-> "date", v |-> n]
Arr(s)    == [t |-> "array", v |-> s]
Obj(f)    == [t |-> "object", v |-> f]

EmptyObj == Obj(<<>>)

isArray(x) == x.t = "array"
isObj(x)   == x.t = "object"

\* Keys of objects, in the order of String.prototype comparison
KeyOrder == <<"$", "$$date", "$$deleted", "$$indexCreated", "$$indexRemoved",
              "$addToSet", "$each", "$inc", "$max", "$min", "$numberDecimal",
              "$pop", "$pull", "$pullAll", "$push", "$pushAll", "$rename", "$set",
              "$slice", "$unset", "0", "1", "2", "3", "_id", "a", "a.b", "b", "k",
              "tf">>

KeyRank(k) == CHOOSE i \in 1..Len(KeyOrder) : KeyOrder[i] = k

\* Object.keys(o).sort()
RECURSIVE SortedKeysOf(_)
SortedKeysOf(ks) ==
  IF ks = {} THEN <<>>
  ELSE LET k == CHOOSE x \in ks : \A y \in ks : KeyRank(x) <= KeyRank(y)
       IN  <<k>> \o SortedKeysOf(ks \ {k})

sortedKeys(o) == SortedKeysOf(DOMAIN o.v)

\* The names of the first indexes of an array; parseInt(name, 10) is a number
\* for these names only
IndexNames == <<"0", "1", "2", "3">>

isIndex(name) == \E i \in 1..Len(IndexNames) : IndexNames[i] = name

parseInt(name) == (CHOOSE i \in 1..Len(IndexNames) : IndexNames[i] = name) - 1

\* obj[name]: a key of an object, an index of an array, a character of a
\* string (strings are single characters)
prop(obj, name) ==
  IF isObj(obj) THEN (IF name \in DOMAIN obj.v THEN obj.v[name] ELSE Undefined)
  ELSE IF isArray(obj)
    THEN (IF isIndex(name) /\ parseInt(name) < Len(obj.v)
            THEN obj.v[parseInt(name) + 1] ELSE Undefined)
  ELSE IF obj.t = "string" /\ name = "0" THEN obj
  ELSE Undefined

\* !obj
falsy(x) ==
  \/ x.t \in {"undefined", "null"}
  \/ x.t = "number" /\ x.v = 0
  \/ x.t = "boolean" /\ x.v = FALSE

Min2(a, b) == IF a < b THEN a ELSE b

compareNSB_NeverGreater(a, b) == IF a < b THEN -1 ELSE 0

compareNSB(a, b) == IF a < b THEN -1 ELSE IF a > b THEN 1 ELSE 0

BoolNum(b) == IF b THEN 1 ELSE 0

\* model.compareThings with the default string comparison
RECURSIVE compareThings(_, _)
compareThings(a, b) ==
  IF a.t = "undefined" THEN (IF b.t = "undefined" THEN 0 ELSE -1)
  ELSE IF b.t = "undefined" THEN 1
  ELSE IF a.t = "null" THEN (IF b.t = "null" THEN 0 ELSE -1)
  ELSE IF b.t = "null" THEN 1
  ELSE IF a.t = "number" THEN (IF b.t = "number" THEN compareNSB(a.v, b.v) ELSE -1)
  ELSE IF b.t = "number" THEN 1
  ELSE IF a.t = "string" THEN (IF b.t = "string" THEN compareNSB(a.v, b.v) ELSE -1)
  ELSE IF b.t = "string" THEN 1
  ELSE IF a.t = "boolean"
    THEN (IF b.t = "boolean" THEN compareNSB(BoolNum(a.v), BoolNum(b.v)) ELSE -1)
  ELSE IF b.t = "boolean" THEN 1
  ELSE IF a.t = "date" THEN (IF b.t = "date" THEN compareNSB(a.v, b.v) ELSE -1)
  ELSE IF b.t = "date" THEN 1
  ELSE IF a.t = "array"
    THEN (IF b.t = "array"
            THEN \* compareArrays
                 LET n == Min2(Len(a.v), Len(b.v))
                     diff == {i \in 1..n : compareThings(a.v[i], b.v[i]) # 0}
                 IN  IF diff # {}
                       THEN LET i == CHOOSE x \in diff : \A y \in diff : x <= y
                            IN  compareThings(a.v[i], b.v[i])
                       ELSE compareNSB(Len(a.v), Len(b.v))
            ELSE -1)
  ELSE IF b.t = "array" THEN 1
  ELSE LET aKeys == sortedKeys(a)
           bKeys == sortedKeys(b)
           n == Min2(Len(aKeys), Len(bKeys))
           diff == {i \in 1..n : compareThings(a.v[aKeys[i]], b.v[bKeys[i]]) # 0}
       IN  IF diff # {}
             THEN LET i == CHOOSE x \in diff : \A y \in diff : x <= y
                  IN  compareThings(a.v[aKeys[i]], b.v[bKeys[i]])
             ELSE compareNSB(Len(aKeys), Len(bKeys))

\* customUtils.isMongoId(input) throws a TypeError: it reads input.constructor
\* of whatever has typeof 'object', null too
isMongoIdThrows(input) == input = Null

\* model.compareThings(a, b) throws a TypeError: isMongoId does on a or b, or
\* on the elements it comes to compare
RECURSIVE compareThingsThrows(_, _)
compareThingsThrows(a, b) ==
  IF isMongoIdThrows(a) \/ isMongoIdThrows(b) THEN TRUE
  ELSE IF isArray(a) /\ isArray(b)
    THEN \E i \in 1..Min2(Len(a.v), Len(b.v)) :
           /\ compareThingsThrows(a.v[i], b.v[i])
           /\ \A j \in 1..(i - 1) :
                compareThingsThrows(a.v[j], b.v[j]) \/ compareThings(a.v[j], b.v[j]) = 0
  ELSE IF isObj(a) /\ isObj(b)
    THEN \E i \in 1..Min2(Len(sortedKeys(a)), Len(sortedKeys(b))) :
           /\ compareThingsThrows(a.v[sortedKeys(a)[i]], b.v[sortedKeys(b)[i]])
           /\ \A j \in 1..(i - 1) :
                \/ compareThingsThrows(a.v[sortedKeys(a)[j]], b.v[sortedKeys(b)[j]])
                \/ compareThings(a.v[sortedKeys(a)[j]], b.v[sortedKeys(b)[j]]) = 0
  ELSE FALSE

Tail2(s) == SubSeq(s, 3, Len(s))

\* model.getDotValue(obj, fieldParts)
RECURSIVE getDotValue(_, _)
getDotValue(obj, fieldParts) ==
  IF falsy(obj) THEN Undefined
  ELSE IF Len(fieldParts) = 0 THEN obj
  ELSE IF Len(fieldParts) = 1 THEN prop(obj, fieldParts[1])
  ELSE LET first == prop(obj, fieldParts[1])
       IN  IF isArray(first)
             THEN IF isIndex(fieldParts[2])
                    THEN getDotValue(prop(first, fieldParts[2]), Tail2(fieldParts))
                    ELSE Arr([i \in 1..Len(first.v) |->
                                getDotValue(first.v[i], Tail(fieldParts))])
             ELSE getDotValue(first, Tail(fieldParts))

\* utils.uniq(array, iterator), the iterator telling values apart by type and
\* value: one entry per distinct value, in the order of first appearance
uniq_KeepsDuplicates(array) == array

RECURSIVE uniq(_)
uniq(array) ==
  IF array = <<>> THEN <<>>
  ELSE LET front == SubSeq(array, 1, Len(array) - 1)
           last  == array[Len(array)]
       IN  IF \E i \in 1..Len(front) : front[i] = last
             THEN uniq(front)
             ELSE Append(uniq(front), last)

(***************************************************************************)
(* Updating documents (lib/model.js).  An operation gives the value it     *)
(* returns in v and the error it throws in err (None if it returns).  A    *)
(* modification made in place is the value the operation returns.  An      *)
(* update query is the sequence of its top-level [k, v] entries, in the    *)
(* order of Object.keys; the argument of a modifier is a "fields" value,   *)
(* the sequence of its [k, v] entries, k a field name split at the dots.   *)
(***************************************************************************)
Returned(v) == [v |-> v, err |-> None]
Threw(e) == [v |-> Undefined, err |-> e]


Fields(entries) == [t |-> "fields", v |-> entries]

Max2(a, b) == IF a > b THEN a ELSE b

nullish(x) == x.t \in {"undefined", "null"}

\* a === b, one of a and b being a primitive value
strictEquals(a, b) == a.t = b.t /\ a.v = b.v

\* k[0] === '$'
startsWithDollar(k) ==
  k \in {"$", "$$date", "$$deleted", "$$indexCreated", "$$indexRemoved", "$addToSet",
         "$each", "$inc", "$max", "$min", "$numberDecimal", "$pop", "$pull",
         "$pullAll", "$push", "$pushAll", "$rename", "$set", "$slice", "$unset",
         "$lt", "$lte", "$gt", "$gte", "$ne", "$eq", "$in", "$nin", "$size",
         "$elemMatch", "$exists", "$regex"}

\* k.indexOf('.') !== -1
containsDot(k) == k \in {"a.b"}

\* Object.prototype.hasOwnProperty.call(obj, field)
hasOwn(obj, field) ==
  IF isObj(obj) THEN field \in DOMAIN obj.v
  ELSE IF isArray(obj) THEN isIndex(field) /\ parseInt(field) < Len(obj.v)
  ELSE obj.t = "string" /\ field = "0"

\* obj[field] = value: on a primitive value the assignment does nothing; past
\* the end of an array it leaves holes; a named property of an array is not
\* an element.  The object stays the object it was (a map or an array of
\* the caller carries an id; Obj and Arr make new ones, which carry none)
setProp(obj, field, value) ==
  IF isObj(obj)
    THEN [obj EXCEPT !.v = [k \in DOMAIN obj.v \cup {field} |->
                              IF k = field THEN value ELSE obj.v[k]]]
  ELSE IF isArray(obj) /\ isIndex(field)
    THEN [obj EXCEPT !.v = [i \in 1..Max2(Len(obj.v), parseInt(field) + 1) |->
                              IF i = parseInt(field) + 1 THEN value
                              ELSE IF i <= Len(obj.v) THEN obj.v[i] ELSE Undefined]]
  ELSE obj

\* delete obj[field]
deleteProp(obj, field) ==
  IF isObj(obj) THEN [obj EXCEPT !.v = [k \in DOMAIN obj.v \ {field} |-> obj.v[k]]]
  ELSE IF isArray(obj) /\ hasOwn(obj, field)
    THEN [obj EXCEPT !.v[parseInt(field) + 1] = Undefined]
  ELSE obj

\* $$deleted let through whatever its value
checkKey_AnyDeleted(k, v) ==
  IF /\ startsWithDollar(k)
     /\ ~(k = "$$date" /\ v.t = "number")
     /\ k \notin {"$$deleted", "$$indexCreated", "$$indexRemoved", "$numberDecimal"}
    THEN "Field names cannot begin with the $ character"
  ELSE IF containsDot(k) THEN "Field names cannot contain a ."
  ELSE None

\* model.checkKey(k, v): the error it throws
checkKey(k, v) ==
  IF /\ startsWithDollar(k)
     /\ ~(k = "$$date" /\ v.t = "number")
     /\ ~(k = "$$deleted" /\ v.t = "boolean" /\ v.v)
     /\ k \notin {"$$indexCreated", "$$indexRemoved", "$numberDecimal"}
    THEN "Field names cannot begin with the $ character"
  ELSE IF containsDot(k) THEN "Field names cannot contain a ."
  ELSE None

\* The first error of a sequence of errors
firstError(errs) ==
  IF \A i \in 1..Len(errs) : errs[i] = None THEN None
  ELSE errs[CHOOSE i \in 1..Len(errs) :
              errs[i] # None /\ \A j \in 1..(i - 1) : errs[j] = None]

\* model.checkObject(obj): the error it throws (the keys taken in sorted order)
RECURSIVE checkObject(_)
checkObject(obj) ==
  IF isArray(obj) THEN firstError([i \in 1..Len(obj.v) |-> checkObject(obj.v[i])])
  ELSE IF isObj(obj)
    THEN firstError([i \in 1..Len(sortedKeys(obj)) |->
                       firstError(<<checkKey(sortedKeys(obj)[i], obj.v[sortedKeys(obj)[i]]),
                                    checkObject(obj.v[sortedKeys(obj)[i]])>>)])
  ELSE None

\* model.deepCopy(obj, strictKeys)
RECURSIVE deepCopy(_, _)
deepCopy(obj, strictKeys) ==
  IF obj.t \in {"boolean", "number", "string", "null", "date"} THEN obj
  ELSE IF isArray(obj) THEN Arr([i \in 1..Len(obj.v) |-> deepCopy(obj.v[i], strictKeys)])
  ELSE IF isObj(obj)
    THEN Obj([k \in {x \in DOMAIN obj.v :
                       ~strictKeys \/ (~startsWithDollar(x) /\ ~containsDot(x))} |->
                deepCopy(obj.v[k], strictKeys)])
  ELSE Undefined

(***************************************************************************)
(* a < b of JavaScript on values.  The string of a value is a sequence of  *)
(* character codes: a string of the model is one lower-case letter, and    *)
(* "[object Object]" stands as one code, as no other string starts with [. *)
(***************************************************************************)
Comma == 44
Minus == 45
Zero == 48
Bracket == 91
LetterA == 96

RECURSIVE digits(_)
digits(n) == IF n < 10 THEN <<Zero + n>> ELSE Append(digits(n \div 10), Zero + (n % 10))

\* String(x), and the elements of an array joined with commas
RECURSIVE toString(_)
toString(x) ==
  IF x.t = "string" THEN <<LetterA + x.v>>
  ELSE IF x.t = "number" THEN (IF x.v < 0 THEN <<Minus>> \o digits(-x.v) ELSE digits(x.v))
  ELSE IF isObj(x) THEN <<Bracket>>
  ELSE IF isArray(x)
    THEN LET joined[i \in 0..Len(x.v)] ==
               IF i = 0 THEN <<>>
               ELSE (IF i = 1 THEN <<>> ELSE Append(joined[i - 1], Comma))
                    \o (IF nullish(x.v[i]) THEN <<>> ELSE toString(x.v[i]))
         IN  joined[Len(x.v)]
  ELSE <<>>

isNumeral(str) ==
  /\ str # <<>>
  /\ \A i \in 1..Len(str) : (str[i] = Minus /\ i = 1 /\ Len(str) > 1)
                              \/ (str[i] >= Zero /\ str[i] < Zero + 10)

RECURSIVE numeral(_)
numeral(str) ==
  IF str = <<>> THEN 0
  ELSE IF str[1] = Minus THEN -numeral(Tail(str))
  ELSE 10 * numeral(SubSeq(str, 1, Len(str) - 1)) + (str[Len(str)] - Zero)

\* ToPrimitive(x) is a string
stringy(x) == x.t \in {"string", "array", "object"}

\* Number(x) is NaN
isNaN(x) ==
  \/ x.t = "undefined"
  \/ stringy(x) /\ toString(x) # <<>> /\ ~isNumeral(toString(x))

\* Number(x), x not NaN
toNumber(x) ==
  IF x.t \in {"number", "date"} THEN x.v
  ELSE IF x.t = "boolean" THEN BoolNum(x.v)
  ELSE IF x.t = "null" THEN 0
  ELSE numeral(toString(x))

RECURSIVE stringLess(_, _)
stringLess(s, t) ==
  IF t = <<>> THEN FALSE
  ELSE IF s = <<>> THEN TRUE
  ELSE IF s[1] # t[1] THEN s[1] < t[1]
  ELSE stringLess(Tail(s), Tail(t))

\* a < b
jsLess(a, b) ==
  IF stringy(a) /\ stringy(b) THEN stringLess(toString(a), toString(b))
  ELSE ~isNaN(a) /\ ~isNaN(b) /\ toNumber(a) < toNumber(b)

(***************************************************************************)
(* serialize and deserialize (lib/model.js).  The serialized form is the   *)
(* JSON text as the sequence of its tokens: the punctuation, the literals  *)
(* null, true and false, the numbers, the names of the properties, and the *)
(* strings, each the character codes between its quotes.  The properties   *)
(* of an object are written in the sorted order of their names.            *)
(***************************************************************************)
LineFeed == 10
Quote == 34
Backslash == 92
LetterN == 110

Punct(c) == [t |-> "punct", v |-> c]
Literal(name) == [t |-> "literal", v |-> name]
Name(k) == [t |-> "name", v |-> k]

\* QuoteJSONString of JSON.stringify: the characters between the quotes
RECURSIVE quote(_)
quote(codes) ==
  IF codes = <<>> THEN <<>>
  ELSE (IF codes[1] = LineFeed THEN <<Backslash, LetterN>>
        ELSE IF codes[1] \in {Quote, Backslash} THEN <<Backslash, codes[1]>>
        ELSE <<codes[1]>>)
       \o quote(Tail(codes))

\* The characters that JSON.parse reads between the quotes of a string
RECURSIVE unquote(_)
unquote(codes) ==
  IF codes = <<>> THEN <<>>
  ELSE IF codes[1] = Backslash /\ Len(codes) > 1
    THEN <<IF codes[2] = LetterN THEN LineFeed ELSE codes[2]>> \o unquote(Tail(Tail(codes)))
  ELSE <<codes[1]>> \o unquote(Tail(codes))

\* The value that JSON.stringify hands the function for a date: toJSON has
\* been called on it, it is a string
toJSON(value) == IF value.t = "date" THEN Str(0) ELSE value

\* The function that serialize gives JSON.stringify, called for this[k]:
\* what it returns, or the error that checkKey throws
replacer(k, value) ==
  IF checkKey(k, toJSON(value)) # None THEN Threw(checkKey(k, toJSON(value)))
  ELSE IF value.t = "date" THEN Returned(Obj([x \in {"$$date"} |-> Num(value.v)]))
  ELSE Returned(value)

\* The text of a property and the text of those after it: a property without
\* text (undefined) is left out; lead is the name of the property
joined(first, rest, lead) ==
  IF first.err # None THEN first
  ELSE IF rest.err # None THEN rest
  ELSE IF first.text = <<>> THEN rest
  ELSE [text |-> lead \o first.text
                   \o (IF rest.text = <<>> THEN <<>> ELSE <<Punct(",")>> \o rest.text),
        err |-> None]

wrapped(open, r, close) ==
  IF r.err # None THEN r
  ELSE [text |-> <<Punct(open)>> \o r.text \o <<Punct(close)>>, err |-> None]

\* SerializeJSONProperty of JSON.stringify with the function of serialize:
\* the text of holder[k], or the error thrown
RECURSIVE serializeProperty(_, _)
RECURSIVE textOf(_)
RECURSIVE members(_, _, _)
RECURSIVE items(_, _)
members(obj, keys, i) ==
  IF i > Len(keys) THEN [text |-> <<>>, err |-> None]
  ELSE joined(serializeProperty(keys[i], obj.v[keys[i]]), members(obj, keys, i + 1),
              <<Name(keys[i]), Punct(":")>>)

\* An element that is undefined is written null
items(array, i) ==
  IF i > Len(array.v) THEN [text |-> <<>>, err |-> None]
  ELSE joined(serializeProperty(IndexNames[i],
                                IF array.v[i] = Undefined THEN Null ELSE array.v[i]),
              items(array, i + 1), <<>>)

textOf(value) ==
  IF value.t = "null" THEN [text |-> <<Literal("null")>>, err |-> None]
  ELSE IF value.t = "boolean"
    THEN [text |-> <<Literal(IF value.v THEN "true" ELSE "false")>>, err |-> None]
  ELSE IF value.t = "number" THEN [text |-> <<[t |-> "number", v |-> value.v]>>, err |-> None]
  ELSE IF value.t = "string"
    THEN [text |-> <<[t |-> "string", v |-> quote(<<LetterA + value.v>>)]>>, err |-> None]
  ELSE IF isArray(value) THEN wrapped("[", items(value, 1), "]")
  ELSE IF isObj(value) THEN wrapped("{", members(value, sortedKeys(value), 1), "}")
  ELSE [text |-> <<>>, err |-> None]

serializeProperty(k, value) ==
  IF replacer(k, value).err # None THEN [text |-> <<>>, err |-> replacer(k, value).err]
  ELSE textOf(replacer(k, value).v)

\* model.serialize(obj): the text, or the error thrown.  The function is
\* first called with the empty name for obj itself
serialize(obj) == serializeProperty("", obj)

\* JSON.parse: the value that the text starts with, and the rest of the text
RECURSIVE parseValue(_)
RECURSIVE parseMembers(_, _)
RECURSIVE parseElements(_, _)
parsedMember(obj, name, r) == parseMembers(r.rest, setProp(obj, name, r.v))

parseMembers(text, obj) ==
  IF text[1] = Punct("}") THEN [v |-> obj, rest |-> Tail(text)]
  ELSE IF text[1] = Punct(",") THEN parseMembers(Tail(text), obj)
  ELSE parsedMember(obj, text[1].v, parseValue(Tail(Tail(text))))

parsedElement(array, r) == parseElements(r.rest, Append(array, r.v))

parseElements(text, array) ==
  IF text[1] = Punct("]") THEN [v |-> Arr(array), rest |-> Tail(text)]
  ELSE IF text[1] = Punct(",") THEN parseElements(Tail(text), array)
  ELSE parsedElement(array, parseValue(text))

parseValue(text) ==
  IF text[1].t = "number" THEN [v |-> Num(text[1].v), rest |-> Tail(text)]
  ELSE IF text[1].t = "string"
    THEN [v |-> Str(unquote(text[1].v)[1] - LetterA), rest |-> Tail(text)]
  ELSE IF text[1].t = "literal"
    THEN [v |-> IF text[1].v = "null" THEN Null ELSE Bool(text[1].v = "true"),
          rest |-> Tail(text)]
  ELSE IF text[1] = Punct("[") THEN parseElements(Tail(text), <<>>)
  ELSE parseMembers(Tail(text), EmptyObj)

\* A date of epoch 0 under $$date taken for no date
reviver_EpochFalsy(k, v) ==
  IF k = "$$date" THEN Date(toNumber(v))
  ELSE IF v.t \in {"string", "number", "boolean", "null"} THEN v
  ELSE IF ~falsy(v) /\ prop(v, "$$date").t = "date" /\ prop(v, "$$date").v # 0
    THEN prop(v, "$$date")
  ELSE v

\* The function that deserialize gives JSON.parse, called with the name k and
\* the value v of a property whose own properties have been through it.  A
\* date is an object: it is truthy whatever its time
reviver(k, v) ==
  IF k = "$$date" THEN Date(toNumber(v))
  ELSE IF v.t \in {"string", "number", "boolean", "null"} THEN v
  ELSE IF ~falsy(v) /\ ~falsy(prop(v, "$$date")) THEN prop(v, "$$date")
  ELSE v

\* InternalizeJSONProperty of JSON.parse: the properties of val first, a
\* property made undefined being deleted, then val itself
RECURSIVE internalize(_, _)
internalize(k, val) ==
  reviver(k,
          IF isArray(val)
            THEN Arr([i \in 1..Len(val.v) |-> internalize(IndexNames[i], val.v[i])])
          ELSE IF isObj(val)
            THEN Obj([x \in {y \in DOMAIN val.v : internalize(y, val.v[y]) # Undefined} |->
                        internalize(x, val.v[x])])
          ELSE val)

\* model.deserialize(rawData)
deserialize(rawData) == internalize("", parseValue(rawData).v)

(***************************************************************************)
(* lastStepModifierFunctions[modifier](obj, field, value)                  *)
(***************************************************************************)
\* value.$slice && value.$each === undefined: value.$each = []
withEach(value) ==
  IF isObj(value) /\ ~falsy(prop(value, "$slice")) /\ prop(value, "$each") = Undefined
    THEN setProp(value, "$each", Arr(<<>>))
    ELSE value

\* A negative $slice taken as a positive one
sliced_Prefix(array, slice) ==
  IF slice.t # "number" THEN array
  ELSE Arr(SubSeq(array.v, 1, Min2(Len(array.v), IF slice.v < 0 THEN -slice.v ELSE slice.v)))

\* obj[field].slice(start, end) for value.$slice
sliced(array, slice) ==
  IF slice.t # "number" THEN array
  ELSE IF slice.v = 0 THEN Arr(<<>>)
  ELSE IF slice.v < 0
    THEN Arr(SubSeq(array.v, Max2(0, Len(array.v) + slice.v) + 1, Len(array.v)))
  ELSE Arr(SubSeq(array.v, 1, Min2(Len(array.v), slice.v)))

\* $push once the field holds an array
pushTo(obj, field, value) ==
  IF isObj(value) /\ ~falsy(prop(value, "$each"))
    THEN IF \/ Cardinality(DOMAIN value.v) >= 3
            \/ (Cardinality(DOMAIN value.v) = 2 /\ prop(value, "$slice") = Undefined)
           THEN Threw("Can only use $slice in cunjunction with $each when $push to array")
         ELSE IF ~isArray(prop(value, "$each")) THEN Threw("$each requires an array value")
         ELSE Returned(setProp(obj, field,
                               sliced([prop(obj, field) EXCEPT
                                         !.v = @ \o prop(value, "$each").v],
                                      prop(value, "$slice"))))
    ELSE Returned(setProp(obj, field, [prop(obj, field) EXCEPT !.v = Append(@, value)]))

\* The array is created if the field doesn't exist
withArray(obj, field) ==
  IF hasOwn(obj, field) THEN obj ELSE setProp(obj, field, Arr(<<>>))

lastStepPush(obj, field, value) ==
  IF ~isArray(prop(obj, field)) THEN Threw("Can't $push an element on non-array values")
  ELSE pushTo(obj, field, withEach(value))

RECURSIVE lastStepAddToSet(_, _, _)
RECURSIVE addEach(_, _, _, _)
RECURSIVE addEachAfter(_, _, _, _)
addEachAfter(r, field, values, i) ==
  IF r.err # None THEN r ELSE addEach(r.v, field, values, i + 1)

\* value.$each.forEach(v => $addToSet(obj, field, v))
addEach(obj, field, values, i) ==
  IF i > Len(values) THEN Returned(obj)
  ELSE addEachAfter(lastStepAddToSet(withArray(obj, field), field, values[i]), field, values, i)

lastStepAddToSet(obj, field, value) ==
  IF ~isArray(prop(obj, field)) THEN Threw("Can't $addToSet an element on non-array values")
  ELSE IF isObj(value) /\ ~falsy(prop(value, "$each"))
    THEN IF Cardinality(DOMAIN value.v) > 1 THEN Threw("Can't use another field in conjunction with $each")
         ELSE IF ~isArray(prop(value, "$each")) THEN Threw("$each requires an array value")
         ELSE addEach(obj, field, prop(value, "$each").v, 1)
  ELSE IF \E i \in 1..Len(prop(obj, field).v) :
            compareThingsThrows(prop(obj, field).v[i], value)
    THEN Threw("TypeError")
  ELSE IF \E i \in 1..Len(prop(obj, field).v) :
            compareThings(prop(obj, field).v[i], value) = 0
    THEN Returned(obj)
  ELSE Returned(setProp(obj, field, [prop(obj, field) EXCEPT !.v = Append(@, value)]))

lastStepPop(obj, field, value) ==
  IF ~isArray(prop(obj, field)) THEN Threw("Can't $pop an element from non-array values")
  ELSE IF value.t # "number" THEN Threw("isn't an integer, can't use it with $pop")
  ELSE IF value.v = 0 THEN Returned(obj)
  ELSE IF value.v > 0
    THEN Returned(setProp(obj, field,
                          Arr(SubSeq(prop(obj, field).v, 1, Len(prop(obj, field).v) - 1))))
  ELSE Returned(setProp(obj, field,
                        Arr(SubSeq(prop(obj, field).v, 2, Len(prop(obj, field).v)))))

lastStepInc(obj, field, value) ==
  IF prop(obj, field).t # "number"
    THEN IF prop(obj, field) = Undefined THEN Returned(setProp(obj, field, value))
         ELSE Threw("Don't use the $inc modifier on non-number fields")
    ELSE Returned(setProp(obj, field, Num(prop(obj, field).v + value.v)))

lastStepMax(obj, field, value) ==
  IF prop(obj, field) = Undefined \/ jsLess(prop(obj, field), value)
    THEN Returned(setProp(obj, field, value))
    ELSE Returned(obj)

lastStepMin(obj, field, value) ==
  IF prop(obj, field) = Undefined \/ jsLess(value, prop(obj, field))
    THEN Returned(setProp(obj, field, value))
    ELSE Returned(obj)

\* Reading or writing a property of undefined or null throws a TypeError
lastStep(modifier, obj, field, value) ==
  IF modifier = "$inc" /\ value.t # "number" THEN Threw("must be a number")
  ELSE IF nullish(obj) THEN Threw("TypeError")
  ELSE CASE modifier = "$set" -> Returned(setProp(obj, field, value))
         [] modifier = "$unset" -> Returned(deleteProp(obj, field))
         [] modifier = "$push" -> lastStepPush(withArray(obj, field), field, value)
         [] modifier = "$addToSet" -> lastStepAddToSet(withArray(obj, field), field, value)
         [] modifier = "$pop" -> lastStepPop(obj, field, value)
         [] modifier = "$inc" -> lastStepInc(obj, field, value)
         [] modifier = "$max" -> lastStepMax(obj, field, value)
         [] modifier = "$min" -> lastStepMin(obj, field, value)

(***************************************************************************)
(* Matching (lib/model.js).  A query is a "fields" value, the sequence of  *)
(* its [k, v] entries, k a field name split at the dots; a query value     *)
(* made of operators is a "fields" value too, k then being the operator.   *)
(* What a matching function gives is its boolean in v and the error it     *)
(* throws in err.  Logical operators, $regex, $exists and $elemMatch are   *)
(* not among the queries taken.                                            *)
(***************************************************************************)
\* The update query's keys, and updateQuery[key]
keysOf(updateQuery) == [i \in 1..Len(updateQuery) |-> updateQuery[i].k]

valueOf(updateQuery, key) ==
  IF \E i \in 1..Len(updateQuery) : updateQuery[i].k = key
    THEN updateQuery[CHOOSE i \in 1..Len(updateQuery) : updateQuery[i].k = key].v
    ELSE Undefined

\* model.areThingsEqual(a, b)
RECURSIVE areThingsEqual(_, _)
areThingsEqual(a, b) ==
  IF \/ a.t \in {"null", "string", "boolean", "number"}
     \/ b.t \in {"null", "string", "boolean", "number"}
    THEN strictEquals(a, b)
  ELSE IF a.t = "date" \/ b.t = "date" THEN a.t = "date" /\ b.t = "date" /\ a.v = b.v
  ELSE IF isArray(a) # isArray(b) \/ a = Undefined \/ b = Undefined THEN FALSE
  ELSE IF isArray(a)
    THEN /\ Len(a.v) = Len(b.v)
         /\ \A i \in 1..Len(a.v) : areThingsEqual(a.v[i], b.v[i])
  ELSE /\ Cardinality(DOMAIN a.v) = Cardinality(DOMAIN b.v)
       /\ \A k \in DOMAIN a.v : k \in DOMAIN b.v /\ areThingsEqual(a.v[k], b.v[k])

\* model.areThingsEqual(a, b) throws a TypeError: isMongoId does on a or b, or
\* on the values it comes to compare (the keys of a map taken in sorted order)
RECURSIVE areThingsEqualThrows(_, _)
areThingsEqualThrows(a, b) ==
  IF isMongoIdThrows(a) \/ isMongoIdThrows(b) THEN TRUE
  ELSE IF isArray(a) /\ isArray(b) /\ Len(a.v) = Len(b.v)
    THEN \E i \in 1..Len(a.v) :
           /\ areThingsEqualThrows(a.v[i], b.v[i])
           /\ \A j \in 1..(i - 1) :
                areThingsEqualThrows(a.v[j], b.v[j]) \/ areThingsEqual(a.v[j], b.v[j])
  ELSE IF isObj(a) /\ isObj(b) /\ Cardinality(DOMAIN a.v) = Cardinality(DOMAIN b.v)
    THEN \E i \in 1..Len(sortedKeys(a)) :
           /\ \A j \in 1..i : sortedKeys(a)[j] \in DOMAIN b.v
           /\ areThingsEqualThrows(a.v[sortedKeys(a)[i]], b.v[sortedKeys(a)[i]])
           /\ \A j \in 1..(i - 1) :
                \/ areThingsEqualThrows(a.v[sortedKeys(a)[j]], b.v[sortedKeys(a)[j]])
                \/ areThingsEqual(a.v[sortedKeys(a)[j]], b.v[sortedKeys(a)[j]])
  ELSE FALSE

Matched(b) == [v |-> b, err |-> None]
Throws(e) == [v |-> FALSE, err |-> e]

\* What areThingsEqual(a, b) gives, and its negation
equal(a, b) ==
  IF areThingsEqualThrows(a, b) THEN Throws("TypeError") ELSE Matched(areThingsEqual(a, b))

negated(r) == IF r.err # None THEN r ELSE Matched(~r.v)

\* typeof x
typeof(x) ==
  IF x.t \in {"undefined", "number", "string", "boolean"} THEN x.t ELSE "object"

\* model.areComparable(a, b)
areComparable(a, b) ==
  IF /\ a.t \notin {"string", "number", "date"}
     /\ b.t \notin {"string", "number", "date"}
    THEN FALSE
  ELSE typeof(a) = typeof(b)

\* a <= b
jsLessEq(a, b) ==
  IF stringy(a) /\ stringy(b) THEN ~stringLess(toString(b), toString(a))
  ELSE ~isNaN(a) /\ ~isNaN(b) /\ toNumber(a) <= toNumber(b)

\* A loop over what the matching functions gave that returns `stop` at the
\* first that gave it, and `~stop` after the last; the first that threw ends it
firstDeciding_None(results, stop) == Matched(~stop)

firstDeciding(results, stop) ==
  IF \A i \in 1..Len(results) : results[i].err = None /\ results[i].v # stop
    THEN Matched(~stop)
  ELSE results[CHOOSE i \in 1..Len(results) :
                 /\ results[i].err # None \/ results[i].v = stop
                 /\ \A j \in 1..(i - 1) : results[j].err = None /\ results[j].v # stop]

\* comparisonFunctions[key](a, b), a the value in the object and b the value
\* in the query
comparisonFunctions(key, a, b) ==
  CASE key = "$lt" -> Matched(areComparable(a, b) /\ jsLess(a, b))
    [] key = "$lte" -> Matched(areComparable(a, b) /\ jsLessEq(a, b))
    [] key = "$gt" -> Matched(areComparable(a, b) /\ jsLess(b, a))
    [] key = "$gte" -> Matched(areComparable(a, b) /\ jsLessEq(b, a))
    [] key = "$ne" ->
         IF a = Undefined THEN Matched(TRUE)
         ELSE IF isArray(a) /\ ~isArray(b)
           THEN negated(firstDeciding([i \in 1..Len(a.v) |-> equal(a.v[i], b)], TRUE))
         ELSE negated(equal(a, b))
    [] key = "$eq" -> equal(a, b)
    [] key = "$in" ->
         IF ~isArray(b) THEN Throws("$in operator called with a non-array")
         ELSE firstDeciding([i \in 1..Len(b.v) |-> equal(a, b.v[i])], TRUE)
    [] key = "$nin" ->
         IF ~isArray(b) THEN Throws("$nin operator called with a non-array")
         ELSE negated(firstDeciding([i \in 1..Len(b.v) |-> equal(a, b.v[i])], TRUE))
    [] key = "$size" ->
         IF ~isArray(a) THEN Matched(FALSE)
         ELSE IF isNaN(b) THEN Throws("$size operator called without an integer")
         ELSE Matched(b.t = "number" /\ Len(a.v) = b.v)
    [] OTHER -> Throws("Unknown comparison function")

\* The entries of a query value that is an object: Object.keys(queryValue)
\* and the values (a map of the model has its keys in sorted order, a date
\* has no keys)
entriesOf(queryValue) ==
  IF queryValue.t = "fields" THEN queryValue.v
  ELSE IF isObj(queryValue)
    THEN [i \in 1..Len(sortedKeys(queryValue)) |->
            [k |-> sortedKeys(queryValue)[i], v |-> queryValue.v[sortedKeys(queryValue)[i]]]]
  ELSE <<>>

\* model.matchQueryPart(obj, queryKey, queryValue, treatObjAsValue), objValue
\* being getDotValue(obj, queryKey)
RECURSIVE matchQueryPart(_, _, _, _)
matchObjValue(objValue, obj, queryKey, queryValue, treatObjAsValue) ==
  IF isArray(objValue) /\ ~treatObjAsValue
    THEN IF isArray(queryValue) THEN matchQueryPart(obj, queryKey, queryValue, TRUE)
         ELSE IF nullish(queryValue) THEN Throws("TypeError")
         ELSE IF valueOf(entriesOf(queryValue), "$eq") # Undefined
           THEN matchQueryPart(obj, queryKey, queryValue, TRUE)
         ELSE IF \E i \in 1..Len(entriesOf(queryValue)) :
                   entriesOf(queryValue)[i].k \in {"$size", "$elemMatch", "$ne"}
           THEN matchQueryPart(obj, queryKey, queryValue, TRUE)
         ELSE firstDeciding([i \in 1..Len(objValue.v) |->
                               matchQueryPart(Obj([k |-> objValue.v[i]]), <<"k">>,
                                              queryValue, FALSE)],
                            TRUE)
  ELSE IF /\ queryValue.t \in {"object", "fields", "date"}
          /\ \E i \in 1..Len(entriesOf(queryValue)) :
               startsWithDollar(entriesOf(queryValue)[i].k)
    THEN IF \E i \in 1..Len(entriesOf(queryValue)) :
              ~startsWithDollar(entriesOf(queryValue)[i].k)
           THEN Throws("You cannot mix operators and normal fields")
           ELSE firstDeciding([i \in 1..Len(entriesOf(queryValue)) |->
                                 comparisonFunctions(entriesOf(queryValue)[i].k, objValue,
                                                     entriesOf(queryValue)[i].v)],
                              FALSE)
  ELSE IF objValue = Undefined /\ queryValue = Null THEN Matched(TRUE)
  ELSE equal(objValue, queryValue)

matchQueryPart(obj, queryKey, queryValue, treatObjAsValue) ==
  matchObjValue(getDotValue(obj, queryKey), obj, queryKey, queryValue, treatObjAsValue)

\* model.match(obj, query), obj an object and query a query of fields
match(obj, query) ==
  firstDeciding([i \in 1..Len(query.v) |->
                   matchQueryPart(obj, query.v[i].k, query.v[i].v, FALSE)],
                FALSE)

(***************************************************************************)
(* modifierFunctions[modifier](obj, field, value, query) and modify        *)
(***************************************************************************)
\* fieldParts.indexOf('$') and fieldParts.lastIndexOf('$'), from 0; -1 if none
indexOfDollar(fieldParts) ==
  IF \A i \in 1..Len(fieldParts) : fieldParts[i] # "$" THEN -1
  ELSE (CHOOSE i \in 1..Len(fieldParts) :
          fieldParts[i] = "$" /\ \A j \in 1..(i - 1) : fieldParts[j] # "$") - 1

lastIndexOfDollar(fieldParts) ==
  IF \A i \in 1..Len(fieldParts) : fieldParts[i] # "$" THEN -1
  ELSE (CHOOSE i \in 1..Len(fieldParts) :
          fieldParts[i] = "$" /\ \A j \in (i + 1)..Len(fieldParts) : fieldParts[j] # "$") - 1

\* R.length(array): NaN, here 0, for what has no length
length(array) ==
  IF isArray(array) THEN Len(array.v) ELSE IF array.t = "string" THEN 1 ELSE 0

\* The update query as an object
toObject(updateQuery) ==
  Obj([k \in Range(keysOf(updateQuery)) |-> valueOf(updateQuery, k)])

\* obj._id !== newDoc._id does not hold
idUnchanged_Always(obj, newDoc) == TRUE

idUnchanged(obj, newDoc) == strictEquals(prop(obj, "_id"), prop(newDoc, "_id"))

\* checkObject(newDoc), then the _id check, then return newDoc
checked(obj, r) ==
  IF r.err # None THEN Threw(r.err)
  ELSE IF checkObject(r.v) # None THEN Threw(checkObject(r.v))
  ELSE IF ~idUnchanged(obj, r.v) THEN Threw("You can't change a document's _id")
  ELSE r

ModifierNames == {"$set", "$unset", "$push", "$pushAll", "$addToSet", "$pop", "$pull",
                  "$pullAll", "$inc", "$max", "$min"}

RECURSIVE modify(_, _, _)
RECURSIVE applyModifier(_, _, _, _, _)
RECURSIVE forEachHelper(_, _, _, _, _)
RECURSIVE forEachIndex(_, _, _, _, _, _)

\* el[k] is what the modifier function made of it: r is what the function gave
assigned(el, k, r) ==
  IF r.err # None THEN Threw(r.err) ELSE Returned(setProp(el, k, r.v))

\* modifierFunctions[modifier](el[fieldParts[0]], rest, value)
into(modifier, el, fieldParts, rest, value) ==
  assigned(el, fieldParts[1],
           applyModifier(modifier, prop(el, fieldParts[1]), rest, value, Undefined))

\* match(modify(obj, { $set: { [arrayPath]: [array[i]] } }), query): r is what
\* modify gave
matchModified_Always(r, query) == [v |-> TRUE, err |-> r.err]

matchModified(r, query) ==
  IF r.err # None THEN [v |-> FALSE, err |-> r.err]
  ELSE match(r.v, query)

\* matchArrayIndexs: the indexes i of array for which the document with
\* [array[i]] at arrayPath matches the query
matchArrayIndexs(obj, arrayPath, array, query) ==
  LET tried == [i \in 1..length(array) |->
                  matchModified(modify(obj,
                                       <<[k |-> "$set",
                                          v |-> Fields(<<[k |-> arrayPath,
                                                          v |-> Arr(<<prop(array, IndexNames[i])>>)]>>)]>>,
                                       Undefined),
                                query)]
  IN  [v |-> {i - 1 : i \in {j \in 1..length(array) : tried[j].err = None /\ tried[j].v}},
       err |-> firstError([i \in 1..length(array) |-> tried[i].err])]

\* The modifier applied at every index of matched, from index i on
forEachIndexAfter(modifier, r, fieldParts, value, matched, i) ==
  IF r.err # None THEN Threw(r.err)
  ELSE forEachIndex(modifier, r.v, fieldParts, value, matched, i + 1)

forEachIndex(modifier, el, fieldParts, value, matched, i) ==
  IF \A j \in matched : j < i THEN Returned(el)
  ELSE IF i \notin matched THEN forEachIndex(modifier, el, fieldParts, value, matched, i + 1)
  ELSE forEachIndexAfter(
         modifier,
         into(modifier, el, fieldParts,
              Tail([fieldParts EXCEPT ![indexOfDollar(fieldParts) + 1] = IndexNames[i + 1]]),
              value),
         fieldParts, value, matched, i)

\* The positional branch of helper, matched being matchArrayIndexs
positional(modifier, el, fieldParts, value, matched) ==
  IF matched.err # None THEN Threw(matched.err)
  ELSE IF matched.v = {}
    THEN into(modifier, el, fieldParts, SelectSeq(Tail(fieldParts), LAMBDA part : part # "$"), value)
  ELSE forEachIndex(modifier, el, fieldParts, value, matched.v, 0)

\* helper(el), el[fieldParts[0]] being defined; a query is given at the top
\* call only, where el is obj
descend(modifier, el, fieldParts, value, query) ==
  IF falsy(query) \/ indexOfDollar(fieldParts) = -1
    THEN into(modifier, el, fieldParts, Tail(fieldParts), value)
  ELSE IF lastIndexOfDollar(fieldParts) # indexOfDollar(fieldParts) THEN Threw("AssertionError")
  ELSE IF indexOfDollar(fieldParts) <= 0 THEN Threw("AssertionError")
  ELSE positional(modifier, el, fieldParts, value,
                  matchArrayIndexs(el, SubSeq(fieldParts, 1, indexOfDollar(fieldParts)),
                                   getDotValue(el, SubSeq(fieldParts, 1,
                                                          indexOfDollar(fieldParts))),
                                   query))

\* helper(el) of createModifierFunction
helper(modifier, el, fieldParts, value, query) ==
  IF Len(fieldParts) = 1 THEN lastStep(modifier, el, fieldParts[1], value)
  ELSE IF nullish(el) THEN Threw("TypeError")
  ELSE IF prop(el, fieldParts[1]) # Undefined
    THEN descend(modifier, el, fieldParts, value, query)
  ELSE IF modifier = "$unset" THEN Returned(el)
  ELSE descend(modifier, setProp(el, fieldParts[1], EmptyObj), fieldParts, value, query)

\* obj.forEach(helper), from element i on
forEachHelperAfter(modifier, obj, r, i, fieldParts, value) ==
  IF r.err # None THEN Threw(r.err)
  ELSE forEachHelper(modifier, [obj EXCEPT !.v[i] = r.v], i + 1, fieldParts, value)

forEachHelper(modifier, obj, i, fieldParts, value) ==
  IF i > Len(obj.v) THEN Returned(obj)
  ELSE forEachHelperAfter(modifier, obj,
                          helper(modifier, obj.v[i], fieldParts, value, Undefined),
                          i, fieldParts, value)

\* modifierFunctions[modifier](obj, field, value, query)
applyModifier(modifier, obj, fieldParts, value, query) ==
  IF isArray(obj) /\ ~isIndex(fieldParts[1])
    THEN forEachHelper(modifier, obj, 1, fieldParts, value)
    ELSE helper(modifier, obj, fieldParts, value, query)

\* keys.forEach(k => modifierFunctions[m](newDoc, k, updateQuery[m][k], query))
RECURSIVE forEachKey(_, _, _, _, _)
forEachKeyAfter(modifier, r, fields, i, query) ==
  IF r.err # None THEN Threw(r.err)
  ELSE forEachKey(modifier, r.v, fields, i + 1, query)

forEachKey(modifier, newDoc, fields, i, query) ==
  IF i > Len(fields) THEN Returned(newDoc)
  ELSE forEachKeyAfter(modifier,
                       applyModifier(modifier, newDoc, fields[i].k, fields[i].v, query),
                       fields, i, query)

\* modifiers.forEach(m => ...)
RECURSIVE forEachModifier(_, _, _, _, _)
forEachModifierAfter(r, updateQuery, modifiers, i, query) ==
  IF r.err # None THEN Threw(r.err)
  ELSE forEachModifier(r.v, updateQuery, modifiers, i + 1, query)

forEachModifier(newDoc, updateQuery, modifiers, i, query) ==
  IF i > Len(modifiers) THEN Returned(newDoc)
  ELSE IF modifiers[i] \notin ModifierNames THEN Threw("Unknown modifier")
  ELSE IF valueOf(updateQuery, modifiers[i]).t \notin {"null", "date", "array", "object", "fields"}
    THEN Threw("Modifier's argument must be an object")
  ELSE IF valueOf(updateQuery, modifiers[i]) = Null THEN Threw("TypeError")
  ELSE forEachModifierAfter(
         forEachKey(modifiers[i], newDoc, valueOf(updateQuery, modifiers[i]).v, 1, query),
         updateQuery, modifiers, i, query)

\* model.modify(obj, updateQuery, query)
modify(obj, updateQuery, query) ==
  IF /\ \E i \in 1..Len(updateQuery) : updateQuery[i].k = "_id"
     /\ ~strictEquals(valueOf(updateQuery, "_id"), prop(obj, "_id"))
    THEN Threw("You cannot change a document's _id")
  ELSE IF /\ SelectSeq(keysOf(updateQuery), startsWithDollar) # <<>>
          /\ Len(SelectSeq(keysOf(updateQuery), startsWithDollar)) # Len(updateQuery)
    THEN Threw("You cannot mix modifiers and normal fields")
  ELSE IF SelectSeq(keysOf(updateQuery), startsWithDollar) = <<>>
    THEN checked(obj, Returned(setProp(deepCopy(toObject(updateQuery), FALSE), "_id",
                                       prop(obj, "_id"))))
  ELSE checked(obj, forEachModifier(deepCopy(obj, FALSE), updateQuery,
                                    uniq(keysOf(updateQuery)), 1, query))

(***************************************************************************)
(* What modify leaves of its update query.  $push gives a value that has   *)
(* $slice and no $each its $each, in the caller's own map; and a map or an *)
(* array of the update query that a modifier has put in the new document   *)
(* is the caller's still, so that what a later modifier does to it there   *)
(* is done to the update query.  obj is copied before the modifiers run    *)
(* and the query is only read.                                             *)
(***************************************************************************)
\* A $push value whose $each is no array: $push throws on it where it reads
\* $each, which is past the line that gives a value its $each
NoArrayEach == Obj([k \in {"$each"} |-> Num(1)])

\* The update query up to field j of its modifier i, that field left out
upTo(updateQuery, i, j) ==
  [n \in 1..i |-> IF n < i THEN updateQuery[n]
                  ELSE [updateQuery[n] EXCEPT !.v.v = SubSeq(@, 1, j - 1)]]

\* $push, called on newDoc for this field, comes to the line that gives the
\* value its $each: prior is what the modifiers before it made of the copy
reaches(prior, fieldParts, query) ==
  /\ prior.err = None
  /\ applyModifier("$push", prior.v, fieldParts, NoArrayEach, query).err
       = "$each requires an array value"

\* value.$each = [] is done to the value of field j of modifier i
givenEach(obj, updateQuery, query, i, j) ==
  /\ SelectSeq(keysOf(updateQuery), startsWithDollar) = keysOf(updateQuery)
  /\ updateQuery[i].k = "$push"
  /\ updateQuery[i].v.v[j].v # withEach(updateQuery[i].v.v[j].v)
  /\ reaches(forEachModifier(deepCopy(obj, FALSE), upTo(updateQuery, i, j),
                             uniq(keysOf(upTo(updateQuery, i, j))), 1, query),
             updateQuery[i].v.v[j].k, query)

\* The map or the array of this id that x holds, undefined if it holds none
RECURSIVE found(_, _)
found(x, id) ==
  IF "id" \in DOMAIN x
    THEN IF x.id = id THEN x ELSE Undefined
  ELSE IF isArray(x) /\ \E i \in 1..Len(x.v) : found(x.v[i], id).t # "undefined"
    THEN found(x.v[CHOOSE i \in 1..Len(x.v) : found(x.v[i], id).t # "undefined"], id)
  ELSE IF isObj(x) /\ \E k \in DOMAIN x.v : found(x.v[k], id).t # "undefined"
    THEN found(x.v[CHOOSE k \in DOMAIN x.v : found(x.v[k], id).t # "undefined"], id)
  ELSE Undefined

\* A value of the update query as the call leaves it: a map or an array of
\* the caller that the returned document holds is as it is there
leftOf(value, r) ==
  IF "id" \in DOMAIN value /\ r.err = None /\ found(r.v, value.id).t # "undefined"
    THEN found(r.v, value.id)
    ELSE value

\* The update query as modify(obj, updateQuery, query) leaves it, r being
\* what the call gives
leftByModify(obj, updateQuery, query, r) ==
  [i \in 1..Len(updateQuery) |->
     IF updateQuery[i].v.t # "fields" THEN [updateQuery[i] EXCEPT !.v = leftOf(@, r)]
     ELSE [updateQuery[i] EXCEPT !.v.v =
             [j \in 1..Len(updateQuery[i].v.v) |->
                [k |-> updateQuery[i].v.v[j].k,
                 v |-> IF givenEach(obj, updateQuery, query, i, j)
                         THEN withEach(updateQuery[i].v.v[j].v)
                         ELSE leftOf(updateQuery[i].v.v[j].v, r)]]]]

\* modify has not been called
NotRun == [v |-> Undefined, err |-> "notRun"]

\* No call of modify
ModifyParked ==
  /\ mObj = EmptyObj
  /\ mUpdateQuery = <<>>
  /\ mQuery = Undefined
  /\ mResult = NotRun

\* No cursor
CursorParked ==
  /\ cCandidates = <<>>
  /\ cQuery = Undefined
  /\ cLimit = Undefined
  /\ cSkip = Undefined
  /\ cSort = Undefined
  /\ cProjection = Undefined
  /\ cOut = NotRun

\* No value compared
CompareParked ==
  /\ cmpA = Undefined
  /\ cmpB = Undefined
  /\ cmpC = Undefined
  /\ cmpOut = NotRun

\* No document checked or serialized
DocumentParked ==
  /\ dDoc = EmptyObj
  /\ dOut = NotRun

(***************************************************************************)
(* The index (lib/indexes.js): an ordered map from key to the documents    *)
(* that have the key, here the set of its <<key, document>> entries.       *)
(* Documents are held by reference: two documents of the pool are two      *)
(* objects.  o is the index's options [unique, sparse]; every operation    *)
(* gives the tree it leaves and the error it throws (None if it returns).  *)
(***************************************************************************)
UniqueViolated == "uniqueViolated"

fieldName == <<"tf">>

Ok(tree) == [tree |-> tree, err |-> None]
Thrown(tree, e) == [tree |-> tree, err |-> e]

treeSearch(tree, key) == {p[2] : p \in {q \in tree : compareThings(q[1], key) = 0}}

treeInsert(tree, key, doc, o) ==
  IF o.unique /\ treeSearch(tree, key) # {}
    THEN Thrown(tree, UniqueViolated)
    ELSE Ok(tree \cup {<<key, doc>>})

treeDelete(tree, key, doc) ==
  tree \ {q \in tree : compareThings(q[1], key) = 0 /\ q[2] = doc}

\* tree.delete(keys[i], doc) for i = 1..n
RECURSIVE deleteKeys(_, _, _, _)
deleteKeys(tree, keys, n, doc) ==
  IF n = 0 THEN tree
  ELSE deleteKeys(treeDelete(tree, keys[n], doc), keys, n - 1, doc)

\* tree.insert(keys[i], doc) for i = from..Len(keys), stopping at the first
\* that throws: failingIndex is its position (0 if none throws)
RECURSIVE insertKeys(_, _, _, _, _)
insertKeys(tree, keys, from, doc, o) ==
  IF from > Len(keys) THEN [tree |-> tree, err |-> None, failingIndex |-> 0]
  ELSE LET r == treeInsert(tree, keys[from], doc, o)
       IN  IF r.err # None
             THEN [tree |-> tree, err |-> r.err, failingIndex |-> from]
             ELSE insertKeys(r.tree, keys, from + 1, doc, o)

\* The keys a document is indexed under
indexKeys(doc, o) ==
  LET key == getDotValue(doc, fieldName)
  IN  IF key = Undefined /\ o.sparse THEN <<>>
      ELSE IF ~isArray(key) THEN <<key>>
      ELSE uniq(key.v)

\* Index.insert(doc): an array key is inserted element by element, and the
\* elements already inserted are removed again when one of them throws.
\* r is what the insertions gave: insertCatch is the catch block.
insertCatch(r, keys, doc) ==
  IF r.err = None THEN Ok(r.tree)
  ELSE Thrown(deleteKeys(r.tree, keys, r.failingIndex - 1, doc), r.err)

insertKeyed(tree, keys, doc, o) ==
  insertCatch(insertKeys(tree, keys, 1, doc, o), keys, doc)

insertDoc_NoRollback(tree, doc, o) ==
  Thrown(insertKeys(tree, indexKeys(doc, o), 1, doc, o).tree,
         insertKeyed(tree, indexKeys(doc, o), doc, o).err)

insertDoc(tree, doc, o) == insertKeyed(tree, indexKeys(doc, o), doc, o)

\* Index.remove(doc)
removeKeyed_FirstKeyOnly(tree, keys, doc) == deleteKeys(tree, keys, Min2(1, Len(keys)), doc)

removeKeyed(tree, keys, doc) == deleteKeys(tree, keys, Len(keys), doc)

removeDoc(tree, doc, o) == removeKeyed(tree, indexKeys(doc, o), doc)

RECURSIVE removeDocs(_, _, _, _)
removeDocs(tree, docs, n, o) ==
  IF n = 0 THEN tree
  ELSE removeDocs(removeDoc(tree, docs[n], o), docs, n - 1, o)

\* this.insert(docs[i]) for i = from..Len(docs), stopping at the first throw;
\* r is what this.insert(docs[from]) gave
RECURSIVE insertDocs(_, _, _, _)
RECURSIVE insertDocsAfter(_, _, _, _)
insertDocsAfter(r, docs, from, o) ==
  IF r.err # None
    THEN [tree |-> r.tree, err |-> r.err, failingIndex |-> from]
    ELSE insertDocs(r.tree, docs, from + 1, o)

insertDocs(tree, docs, from, o) ==
  IF from > Len(docs) THEN [tree |-> tree, err |-> None, failingIndex |-> 0]
  ELSE insertDocsAfter(insertDoc(tree, docs[from], o), docs, from, o)

\* Index.insert([docs]): all or nothing
insertMultipleCatch(r, docs, o) ==
  IF r.err = None THEN Ok(r.tree)
  ELSE Thrown(removeDocs(r.tree, docs, r.failingIndex - 1, o), r.err)

insertMultipleDocs(tree, docs, o) ==
  insertMultipleCatch(insertDocs(tree, docs, 1, o), docs, o)

\* Index.update(oldDoc, newDoc): the old document is put back when the new
\* one cannot be inserted
updateCatch(r, oldDoc, o) ==
  IF r.err = None THEN Ok(r.tree)
  ELSE Thrown(insertDoc(r.tree, oldDoc, o).tree, r.err)

updateDoc(tree, oldDoc, newDoc, o) ==
  updateCatch(insertDoc(removeDoc(tree, oldDoc, o), newDoc, o), oldDoc, o)

olds(pairs) == [i \in 1..Len(pairs) |-> pairs[i].oldDoc]
news(pairs) == [i \in 1..Len(pairs) |-> pairs[i].newDoc]

\* Index.update([{ oldDoc, newDoc }]): every old document is removed, then
\* every new one inserted; when one throws, the new ones inserted so far are
\* removed and every old one is inserted again
updateMultipleCatch_NoReinsert(r, pairs, o) ==
  IF r.err = None THEN Ok(r.tree)
  ELSE Thrown(removeDocs(r.tree, news(pairs), r.failingIndex - 1, o), r.err)

updateMultipleCatch(r, pairs, o) ==
  IF r.err = None THEN Ok(r.tree)
  ELSE Thrown(insertDocs(removeDocs(r.tree, news(pairs), r.failingIndex - 1, o),
                         olds(pairs), 1, o).tree,
              r.err)

updateMultipleDocs(tree, pairs, o) ==
  updateMultipleCatch(insertDocs(removeDocs(tree, olds(pairs), Len(pairs), o),
                                 news(pairs), 1, o),
                      pairs, o)

swapped_Not(pairs) == pairs

swapped(pairs) ==
  [i \in 1..Len(pairs) |-> [oldDoc |-> pairs[i].newDoc, newDoc |-> pairs[i].oldDoc]]

\* Index.revertUpdate(oldDoc, newDoc) and Index.revertUpdate([{ oldDoc, newDoc }])
revertUpdate(tree, oldDoc, newDoc, o) == updateDoc(tree, newDoc, oldDoc, o)

revertUpdateMultipleDocs(tree, pairs, o) == updateMultipleDocs(tree, swapped(pairs), o)

\* Index.getMatching(key)
getMatching(tree, key) == treeSearch(tree, key)

\* No call of the index is under way
NoCall == [op |-> "none", olds |-> <<>>, news |-> <<>>, err |-> None, before |-> {}]

\* The index of a run that does not use it
IndexParked ==
  /\ idxTree = {}
  /\ idxOptions = [unique |-> FALSE, sparse |-> FALSE]
  /\ idxStored = {}
  /\ idxLast = NoCall

(***************************************************************************)
(* The executor (lib/executor.js): a queue of concurrency one in front of  *)
(* the datastore, and a buffer that holds the tasks pushed before the      *)
(* database is loaded.  A task is named by its position in exOps.          *)
(***************************************************************************)
\* new Executor()
ExecutorInit ==
  /\ exReady = FALSE
  /\ exBuffer = <<>>
  /\ exQueue = <<>>
  /\ exInFlight = {}
  /\ exOps = <<>>
  /\ exStarted = {}
  /\ exDone = {}
  /\ exStore = {}
  /\ exSeen = <<>>

\* The queue's worker is free to take a task
workerFree_Pair(inflight) == Cardinality(inflight) < 2

workerFree(inflight) == inflight = {}

\* Executor.push(task, forceQueuing): the task pushed is the next of exOps;
\* over is the set of buffered tasks a forced task goes ahead of
push(kind, forceQueuing) ==
  /\ Len(exOps) < MaxOps
  /\ LET id == Len(exOps) + 1
         queued == exReady \/ forceQueuing
     IN  /\ exOps' = Append(exOps, [kind |-> kind,
                                    over |-> IF queued THEN Range(exBuffer) ELSE {}])
         /\ exSeen' = Append(exSeen, {})
         /\ exQueue' = IF queued THEN Append(exQueue, id) ELSE exQueue
         /\ exBuffer' = IF queued THEN exBuffer ELSE Append(exBuffer, id)
  /\ UNCHANGED <<exReady, exInFlight, exStarted, exDone, exStore>>

\* Executor.processBuffer()
processBuffer(ready, queue, buffer) ==
  [ready |-> TRUE, queue |-> queue \o buffer, buffer |-> <<>>]

\* cursor.exec(callback): the find is pushed to the executor
CursorExec ==
  /\ UNCHANGED notExecutorVars
  /\ push("read", FALSE)

\* db.insert, db.update, db.remove: the write is pushed to the executor
PushWrite ==
  /\ UNCHANGED notExecutorVars
  /\ push("write", FALSE)

\* db.loadDatabase: pushed with forceQueuing
PushLoadDatabase ==
  /\ UNCHANGED notExecutorVars
  /\ push("load", TRUE)

\* The queue's worker takes the task at the head of the queue
StartTask ==
  /\ UNCHANGED notExecutorVars
  /\ exQueue # <<>>
  /\ workerFree(exInFlight)
  /\ exInFlight' = exInFlight \cup {Head(exQueue)}
  /\ exStarted' = exStarted \cup {Head(exQueue)}
  /\ exQueue' = Tail(exQueue)
  /\ UNCHANGED <<exReady, exBuffer, exOps, exDone, exStore, exSeen>>

\* A find or a write runs against the datastore and calls back
FinishTask ==
  /\ UNCHANGED notExecutorVars
  /\ \E id \in exInFlight :
       /\ exOps[id].kind # "load"
       /\ exInFlight' = exInFlight \ {id}
       /\ exDone' = exDone \cup {id}
       /\ exSeen' = [exSeen EXCEPT ![id] = exStore]
       /\ exStore' = IF exOps[id].kind = "write" THEN exStore \cup {id} ELSE exStore
  /\ UNCHANGED <<exReady, exBuffer, exQueue, exOps, exStarted>>

\* loadDatabase calls back: with the database loaded and the buffer
\* processed, or with an error and the buffer as it was
FinishLoadDatabase ==
  /\ UNCHANGED notExecutorVars
  /\ \E id \in exInFlight, loaded \in BOOLEAN :
       /\ exOps[id].kind = "load"
       /\ exInFlight' = exInFlight \ {id}
       /\ exDone' = exDone \cup {id}
       /\ exSeen' = [exSeen EXCEPT ![id] = exStore]
       /\ LET e == IF loaded THEN processBuffer(exReady, exQueue, exBuffer)
                   ELSE [ready |-> exReady, queue |-> exQueue, buffer |-> exBuffer]
          IN  /\ exReady' = e.ready
              /\ exQueue' = e.queue
              /\ exBuffer' = e.buffer
  /\ UNCHANGED <<exOps, exStarted, exStore>>

ExecutorNext ==
  \/ CursorExec
  \/ PushWrite
  \/ PushLoadDatabase
  \/ StartTask
  \/ FinishTask
  \/ FinishLoadDatabase

InitExecutor ==
  ExecutorInit /\ StorageParked /\ IndexParked /\ ModifyParked /\ CursorParked /\ CompareParked
  /\ DocumentParked

SpecExecutor == InitExecutor /\ [][ExecutorNext]_vars

(***************************************************************************)
(* modify, applied to the documents and update queries of a caller         *)
(***************************************************************************)
\* Documents of a datastore: a string or a number for _id, a number, an
\* array of subdocuments or a subdocument for a
ModifyDocs ==
  { Obj([_id |-> Str(1), a |-> Num(1)]),
    Obj([_id |-> Num(1), a |-> Arr(<<Obj([b |-> Num(1)]), Obj([b |-> Num(2)])>>)]),
    Obj([_id |-> Str(1), a |-> Obj([b |-> Num(1)])]),
    Obj([_id |-> Num(1), a |-> Arr(<<Obj([b |-> Num(1)]), Obj([k |-> Num(1)])>>)]),
    Obj([_id |-> Str(2)]) }

ModifyValues == {Num(1), Str(1), Str(2)}

\* An array and a map that the caller of modify holds
CallerValues ==
  {[t |-> "array", v |-> <<Num(1)>>, id |-> 1], [t |-> "object", v |-> [b |-> Num(1)], id |-> 2]}

ModifyPaths == {<<"_id">>, <<"a">>, <<"a", "b">>, <<"_id", "b">>, <<"a", "$", "b">>}

ModifyModifiers == {"$set", "$unset", "$inc", "$max", "$min", "$push", "$pop",
                    "$addToSet", "$rename"}

\* The top-level entries of update queries: a modifier with one field, a
\* modifier with an argument that is no object, a normal field
UpdateEntries ==
  {[k |-> m, v |-> Fields(<<[k |-> path, v |-> value]>>)] :
     m \in ModifyModifiers, path \in ModifyPaths, value \in ModifyValues}
  \cup {[k |-> "$set", v |-> Num(1)]}
  \cup {[k |-> key, v |-> value] : key \in {"_id", "a"}, value \in ModifyValues}
  \cup {[k |-> m, v |-> Fields(<<[k |-> <<"a">>, v |-> value]>>)] :
          m \in {"$set", "$push", "$addToSet"}, value \in CallerValues}
  \cup {[k |-> "a", v |-> value] : value \in CallerValues}

\* { $each: each, $slice: slice }, a part that is undefined left out
Each(each, slice) ==
  Obj([k \in {x \in {"$each", "$slice"} : (IF x = "$each" THEN each ELSE slice) # Undefined} |->
         IF k = "$each" THEN each ELSE slice])

\* The values of $push and $addToSet that list several values, with the
\* $slice that trims to nothing, to less and to more than there is; $slice
\* alone; a map that differs from one of the documents' by the name of its key
EachValues ==
  {Each(Arr(<<Num(1), Str(1)>>), slice) :
     slice \in {Undefined, Num(0), Num(1), Num(-1), Num(3), Num(-3), Num(5), Num(-5)}}
  \cup {Each(Undefined, Num(1)), Each(Undefined, Num(0))}
  \cup {Each(Arr(<<Obj([b |-> Num(1)]), Obj([k |-> Num(1)]), Obj([b |-> Num(1)])>>), Undefined),
        Obj([k |-> Num(1)])}

EachEntries ==
  {[k |-> m, v |-> Fields(<<[k |-> <<"a">>, v |-> value]>>)] :
     m \in {"$push", "$addToSet"}, value \in EachValues}

\* Update queries of at most MaxKeys keys, no key twice, and those of one
\* $push or $addToSet of several values
UpdateQueries ==
  {u \in Batches(UpdateEntries, MaxKeys) :
     \A i \in 1..Len(u), j \in 1..Len(u) : i # j => u[i].k # u[j].k}
  \cup {<<entry>> : entry \in EachEntries}

\* No query; queries that one element, every element and no single element of
\* the array a of a document satisfies
ModifyQueries ==
  {Undefined,
   Fields(<<[k |-> <<"a", "b">>, v |-> Num(2)]>>),
   Fields(<<[k |-> <<"_id">>, v |-> Num(1)]>>),
   Fields(<<[k |-> <<"a", "b">>, v |-> Num(1)], [k |-> <<"a", "k">>, v |-> Num(1)]>>)}

ModifyInit ==
  /\ mObj \in ModifyDocs
  /\ mUpdateQuery \in UpdateQueries
  /\ mQuery \in ModifyQueries
  /\ mResult = NotRun

\* model.modify(obj, updateQuery, query)
Modify ==
  /\ UNCHANGED notModifyVars
  /\ mResult = NotRun
  /\ \E r \in {modify(mObj, mUpdateQuery, mQuery)} :
       /\ mResult' = r
       /\ mUpdateQuery' = leftByModify(mObj, mUpdateQuery, mQuery, r)
  /\ UNCHANGED <<mObj, mQuery>>

ModifyNext == Modify

InitModify ==
  ModifyInit /\ StorageParked /\ IndexParked /\ ExecutorInit /\ CursorParked /\ CompareParked
  /\ DocumentParked

SpecModify == InitModify /\ [][ModifyNext]_vars

(***************************************************************************)
(* Comparing and matching values: compareThings, the comparison functions  *)
(* and matchQueryPart on values of every type                              *)
(***************************************************************************)
CompareValues ==
  { Undefined, Null, Num(0), Num(1), Str(1), Str(2), Bool(FALSE), Bool(TRUE), Date(1),
    Arr(<<>>), Arr(<<Num(1)>>), Arr(<<Num(0), Num(1)>>),
    Obj([a |-> Num(1)]), Obj([b |-> Num(1)]) }

\* The values of a query on a field made from b: b itself, and the operators on it
QueryValues(b) ==
  {b, Fields(<<[k |-> "$in", v |-> Arr(<<b>>)]>>)}
  \cup {Fields(<<[k |-> operator, v |-> b]>>) :
          operator \in {"$gt", "$lte", "$eq", "$ne", "$nin", "$size"}}

CompareInit ==
  /\ cmpA \in CompareValues
  /\ cmpB \in CompareValues
  /\ cmpC \in CompareValues
  /\ cmpOut = NotRun

\* model.compareThings on the pairs of the three values: whether it throws on
\* (a, b), and what it gives where it does not throw
CompareThings ==
  /\ UNCHANGED notCompareVars
  /\ cmpOut = NotRun
  /\ cmpOut' = [err |-> None, op |-> "compareThings",
                threw |-> compareThingsThrows(cmpA, cmpB),
                ab |-> compareThings(cmpA, cmpB), ba |-> compareThings(cmpB, cmpA),
                bc |-> compareThings(cmpB, cmpC), ac |-> compareThings(cmpA, cmpC)]
  /\ UNCHANGED <<cmpA, cmpB, cmpC>>

\* comparisonFunctions.$lt, $lte, $gt, $gte on the value a of the object and
\* the value b of the query
Comparison ==
  /\ UNCHANGED notCompareVars
  /\ cmpOut = NotRun
  /\ \E operator \in {"$lt", "$lte", "$gt", "$gte"} :
       cmpOut' = [err |-> None, op |-> operator,
                  r |-> comparisonFunctions(operator, cmpA, cmpB)]
  /\ UNCHANGED <<cmpA, cmpB, cmpC>>

\* matchQueryPart({ a: A }, 'a', queryValue)
MatchQueryPart ==
  /\ UNCHANGED notCompareVars
  /\ cmpOut = NotRun
  /\ \E queryValue \in QueryValues(cmpB) :
       cmpOut' = [err |-> None, op |-> "matchQueryPart", q |-> queryValue,
                  r |-> matchQueryPart(Obj([a |-> cmpA]), <<"a">>, queryValue, FALSE)]
  /\ UNCHANGED <<cmpA, cmpB, cmpC>>

CompareNext == CompareThings \/ Comparison \/ MatchQueryPart

InitCompare ==
  CompareInit /\ StorageParked /\ IndexParked /\ ExecutorInit /\ ModifyParked /\ CursorParked
  /\ DocumentParked

SpecCompare == InitCompare /\ [][CompareNext]_vars

(***************************************************************************)
(* checkObject, serialize and deserialize on the documents of a caller     *)
(***************************************************************************)
\* Numbers, strings (a letter, a line feed, a backslash), booleans, null and
\* dates, one of them of epoch 0
Leaves ==
  {Num(0), Num(1), Str(1), Str(LineFeed - LetterA), Str(Backslash - LetterA),
   Bool(FALSE), Bool(TRUE), Null, Date(0), Date(1)}

\* Names of fields: plain, with a dot, the encoded forms, and others that
\* begin with $
FieldNames ==
  {"a", "a.b", "$$date", "$$deleted", "$$indexCreated", "$$indexRemoved",
   "$numberDecimal", "$set"}

\* The maps of one field
Maps ==
  {Obj([x \in {k} |-> leaf]) :
     k \in FieldNames, leaf \in {Num(1), Str(1), Bool(FALSE), Bool(TRUE), Date(0)}}

\* What a field holds: a leaf, a map, an array of one of them, and dates two
\* and three levels down
Nested ==
  Leaves \cup Maps \cup {Arr(<<x>>) : x \in Leaves \cup Maps}
  \cup {Arr(<<Num(1), Date(0), Obj([a |-> Date(1)])>>),
        Obj([a |-> Arr(<<Obj([b |-> Date(0)])>>), b |-> Str(LineFeed - LetterA)]),
        Arr(<<Arr(<<Date(1), Arr(<<>>)>>), EmptyObj>>)}

Documents ==
  {Obj([_id |-> Str(1), k |-> x]) : x \in Nested}
  \cup Maps
  \cup {Obj([_id |-> Str(1)])}

DocumentInit ==
  /\ dDoc \in Documents
  /\ dOut = NotRun

\* model.checkObject(doc)
CheckObject ==
  /\ UNCHANGED notDocumentVars
  /\ dOut = NotRun
  /\ dOut' = [op |-> "checkObject", err |-> checkObject(dDoc), text |-> <<>>, v |-> Undefined]
  /\ UNCHANGED dDoc

\* model.serialize(doc)
Serialize ==
  /\ UNCHANGED notDocumentVars
  /\ dOut = NotRun
  /\ \E r \in {serialize(dDoc)} :
       dOut' = [op |-> "serialize", err |-> r.err, text |-> r.text, v |-> Undefined]
  /\ UNCHANGED dDoc

\* model.deserialize of the text that serialize has given
Deserialize ==
  /\ UNCHANGED notDocumentVars
  /\ dOut.err = None /\ dOut.op = "serialize"
  /\ dOut' = [op |-> "deserialize", err |-> None, text |-> dOut.text,
              v |-> deserialize(dOut.text)]
  /\ UNCHANGED dDoc

DocumentNext == CheckObject \/ Serialize \/ Deserialize

InitDocument ==
  DocumentInit /\ StorageParked /\ IndexParked /\ ExecutorInit /\ ModifyParked /\ CursorParked
  /\ CompareParked

SpecDocument == InitDocument /\ [][DocumentNext]_vars

(***************************************************************************)
(* The cursor (lib/cursor.js).  The candidates are the documents that      *)
(* db.getCandidates hands to _exec, in scan order: the documents of the    *)
(* datastore themselves, no copies, told apart by their _id.  A sort       *)
(* query and a projection are the sequences of their [k, v] entries, k a   *)
(* field name split at the dots (here a top-level field name).             *)
(***************************************************************************)
MaxLimit == 2          \* largest limit and largest skip of a cursor

\* customUtils.removeUndefined(obj) throws a TypeError: isMongoId does, on a
\* null that obj holds in its maps
RECURSIVE removeUndefinedThrows(_)
removeUndefinedThrows(obj) ==
  \/ isMongoIdThrows(obj)
  \/ isObj(obj) /\ \E k \in DOMAIN obj.v : removeUndefinedThrows(obj.v[k])

\* customUtils.removeUndefined(obj), which returns: arrays, dates and
\* primitive values as they are, a map without its undefined properties and
\* without the maps that it leaves empty, undefined for a map that it
\* leaves empty
RECURSIVE removeUndefined(_)
removeUndefined(obj) ==
  IF ~isObj(obj) THEN obj
  ELSE IF \A k \in DOMAIN obj.v : removeUndefined(obj.v[k]) = Undefined THEN Undefined
  ELSE [obj EXCEPT !.v = [k \in {x \in DOMAIN obj.v : removeUndefined(obj.v[x]) # Undefined} |->
                            removeUndefined(obj.v[k])]]

\* What removeUndefined(obj), which deletes in place, leaves of obj when it
\* returns: the map that it returns, or the map emptied
leftByRemoveUndefined(obj) ==
  IF isObj(obj) /\ removeUndefined(obj) = Undefined THEN [obj EXCEPT !.v = <<>>]
  ELSE removeUndefined(obj)

\* What removeUndefined(obj) leaves of obj when it throws (the keys taken in
\* sorted order): the properties before the one that throws are done
firstThrowing(obj) ==
  CHOOSE i \in 1..Len(sortedKeys(obj)) :
    /\ removeUndefinedThrows(obj.v[sortedKeys(obj)[i]])
    /\ \A j \in 1..(i - 1) : ~removeUndefinedThrows(obj.v[sortedKeys(obj)[j]])

RECURSIVE leftByThrow(_)
leftByThrow(obj) ==
  IF ~isObj(obj) THEN obj
  ELSE [obj EXCEPT !.v =
          [k \in {x \in DOMAIN obj.v :
                    \/ KeyRank(x) >= KeyRank(sortedKeys(obj)[firstThrowing(obj)])
                    \/ removeUndefined(obj.v[x]) # Undefined} |->
             IF KeyRank(k) < KeyRank(sortedKeys(obj)[firstThrowing(obj)])
               THEN removeUndefined(obj.v[k])
             ELSE IF k = sortedKeys(obj)[firstThrowing(obj)] THEN leftByThrow(obj.v[k])
             ELSE obj.v[k]]]

\* Object.keys(value).length > 0
hasKeys(value) ==
  \/ isObj(value) /\ DOMAIN value.v # {}
  \/ isArray(value) /\ Len(value.v) > 0
  \/ value.t = "string"

\* model.getObjDotValue(obj, field)
RECURSIVE getObjDotValue(_, _)
getObjDotValue(obj, fieldParts) ==
  IF falsy(obj) THEN Undefined
  ELSE IF Len(fieldParts) = 0 THEN obj
  ELSE IF prop(obj, fieldParts[1]) = Undefined THEN EmptyObj
  ELSE IF Len(fieldParts) = 1
    THEN Obj([k \in {fieldParts[1]} |-> prop(obj, fieldParts[1])])
  ELSE IF isArray(prop(obj, fieldParts[1]))
    THEN IF isIndex(fieldParts[2])
           THEN getObjDotValue(prop(prop(obj, fieldParts[1]), fieldParts[2]),
                               Tail2(fieldParts))
           ELSE Obj([k \in {fieldParts[1]} |->
                       IF \E i \in 1..Len(prop(obj, fieldParts[1]).v) :
                            hasKeys(getObjDotValue(prop(obj, fieldParts[1]).v[i],
                                                   Tail(fieldParts)))
                         THEN Arr([i \in 1..Len(prop(obj, fieldParts[1]).v) |->
                                     getObjDotValue(prop(obj, fieldParts[1]).v[i],
                                                    Tail(fieldParts))])
                         ELSE Arr(<<>>)])
  ELSE Obj([k \in {fieldParts[1]} |->
              getObjDotValue(prop(obj, fieldParts[1]), Tail(fieldParts))])

\* The keys of a projection without _id, and the action of project: the value
\* of the last of them (undefined if there is none)
restOf(projection) == SelectSeq(projection.v, LAMBDA entry : entry.k # <<"_id">>)

actionOf(keys) == IF keys = <<>> THEN Undefined ELSE keys[Len(keys)].v

\* The consistency check of project throws
inconsistent(keys) == \E i \in 1..Len(keys) : keys[i].v # actionOf(keys)

\* The keys of a pick-type projection whose pick removeUndefined makes throw
throwingKey(candidate, keys) ==
  IF \E i \in 1..Len(keys) :
       removeUndefinedThrows(getObjDotValue(candidate, keys[i].k))
    THEN CHOOSE i \in 1..Len(keys) :
           /\ removeUndefinedThrows(getObjDotValue(candidate, keys[i].k))
           /\ \A j \in 1..(i - 1) :
                ~removeUndefinedThrows(getObjDotValue(candidate, keys[j].k))
    ELSE 0

\* mergeDotValue of a pick-type projection, as the entries of the $set that
\* project hands to modify: for each key the pick of the key, less what
\* removeUndefined has deleted from it
mergeDotValue(candidate, keys) ==
  [i \in 1..Len(keys) |->
     [k |-> keys[i].k, v |-> removeUndefined(getObjDotValue(candidate, keys[i].k))]]

\* The entries of mergeDotValue that have a value
setOf(merged) ==
  [i \in 1..Len(SelectSeq(merged, LAMBDA entry : entry.v # Undefined)) |->
     [k |-> SelectSeq(merged, LAMBDA entry : entry.v # Undefined)[i].k,
      v |-> prop(SelectSeq(merged, LAMBDA entry : entry.v # Undefined)[i].v,
                 SelectSeq(merged, LAMBDA entry : entry.v # Undefined)[i].k[1])]]

\* toPush._id = candidate._id, whatever keepId
withId_Kept(r, candidate, keepId) ==
  IF r.err # None THEN r ELSE Returned(setProp(r.v, "_id", prop(candidate, "_id")))

\* toPush._id = candidate._id if keepId, delete toPush._id otherwise
withId(r, candidate, keepId) ==
  IF r.err # None THEN r
  ELSE IF keepId THEN Returned(setProp(r.v, "_id", prop(candidate, "_id")))
  ELSE Returned(deleteProp(r.v, "_id"))

\* What project pushes for a candidate
toPush(candidate, keys, keepId) ==
  IF actionOf(keys) = Num(1)
    THEN IF throwingKey(candidate, keys) # 0 THEN Threw("TypeError")
         ELSE withId(modify(EmptyObj,
                            <<[k |-> "$set",
                               v |-> Fields(setOf(mergeDotValue(candidate, keys)))]>>,
                            Undefined),
                     candidate, keepId)
  ELSE withId(modify(candidate,
                     <<[k |-> "$unset",
                        v |-> Fields([i \in 1..Len(keys) |->
                                        [k |-> keys[i].k, v |-> Bool(TRUE)]])]>>,
                     Undefined),
              candidate, keepId)

\* The candidate as project leaves it: removeUndefined deletes from the values
\* that the picks share with the candidate, up to the key at which it throws
leftByPick(candidate, keys, throwing) ==
  [candidate EXCEPT !.v =
     [k \in DOMAIN candidate.v |->
        IF \E i \in 1..Len(keys) : keys[i].k = <<k>> /\ (throwing = 0 \/ i < throwing)
          THEN leftByRemoveUndefined(candidate.v[k])
        ELSE IF throwing # 0 /\ keys[throwing].k = <<k>> THEN leftByThrow(candidate.v[k])
        ELSE candidate.v[k]]]

leftByProject(candidate, keys) ==
  IF actionOf(keys) = Num(1)
    THEN leftByPick(candidate, keys, throwingKey(candidate, keys))
    ELSE candidate

\* The first candidate for which project throws (0 if there is none),
\* pushed being what project pushes for each candidate
firstFailing(pushed) ==
  IF \E i \in 1..Len(pushed) : pushed[i].err # None
    THEN CHOOSE i \in 1..Len(pushed) :
           pushed[i].err # None /\ \A j \in 1..(i - 1) : pushed[j].err = None
    ELSE 0

\* What the candidates.forEach of project gives, failing being the first
\* candidate for which it throws
pushedUntil(candidates, keys, pushed, failing) ==
  [v |-> IF failing = 0 THEN [i \in 1..Len(candidates) |-> pushed[i].v] ELSE <<>>,
   err |-> IF failing = 0 THEN None ELSE pushed[failing].err,
   projection |-> Fields(keys),
   left |-> [i \in 1..Len(candidates) |->
               IF failing = 0 \/ i <= failing THEN leftByProject(candidates[i], keys)
               ELSE candidates[i]]]

\* The candidates.forEach of project
projectEach(candidates, keys, keepId) ==
  pushedUntil(candidates, keys,
              [i \in 1..Len(candidates) |-> toPush(candidates[i], keys, keepId)],
              firstFailing([i \in 1..Len(candidates) |->
                              toPush(candidates[i], keys, keepId)]))

\* Cursor.project(candidates): what it returns or throws (v, err), the
\* projection it leaves in the cursor and the candidates as it leaves them
project(projection, candidates) ==
  IF projection = Undefined \/ projection.v = <<>>
    THEN [v |-> candidates, err |-> None, projection |-> projection, left |-> candidates]
  ELSE IF inconsistent(restOf(projection))
    THEN [v |-> <<>>, err |-> "Can't both keep and omit fields except for _id",
          projection |-> Fields(restOf(projection)), left |-> candidates]
  ELSE projectEach(candidates, restOf(projection),
                   valueOf(projection.v, <<"_id">>) # Num(0))

\* The cursor, this
Cursor == [candidates |-> cCandidates, query |-> cQuery, limit |-> cLimit, skip |-> cSkip,
           sort |-> cSort, projection |-> cProjection]

\* The loop of _exec over the candidates: res, or the error that match throws
RECURSIVE forEachCandidate(_, _, _, _)
afterMatch(this, i, res, skipped, matched) ==
  IF matched.err # None THEN Threw(matched.err)
  ELSE IF ~matched.v THEN forEachCandidate(this, i + 1, res, skipped)
  ELSE IF this.sort # Undefined
    THEN forEachCandidate(this, i + 1, Append(res, this.candidates[i]), skipped)
  ELSE IF ~falsy(this.skip) /\ this.skip.v > skipped
    THEN forEachCandidate(this, i + 1, res, skipped + 1)
  ELSE IF ~falsy(this.limit) /\ this.limit.v <= Len(res) + 1
    THEN [v |-> Append(res, this.candidates[i]), err |-> None]
  ELSE forEachCandidate(this, i + 1, Append(res, this.candidates[i]), skipped)

forEachCandidate(this, i, res, skipped) ==
  IF i > Len(this.candidates) THEN [v |-> res, err |-> None]
  ELSE afterMatch(this, i, res, skipped, match(this.candidates[i], this.query))

\* The comparator of res.sort, which stops at the first key
compare_FirstKeyOnly(criteria, i, a, b) ==
  IF i > Len(criteria) THEN 0
  ELSE criteria[i].v.v * compareThings(getDotValue(a, criteria[i].k),
                                       getDotValue(b, criteria[i].k))

\* The comparator of res.sort: the first criterion, from the i-th on, that
\* does not give 0
RECURSIVE compare(_, _, _, _)
compare(criteria, i, a, b) ==
  IF i > Len(criteria) THEN 0
  ELSE IF criteria[i].v.v * compareThings(getDotValue(a, criteria[i].k),
                                          getDotValue(b, criteria[i].k)) # 0
    THEN criteria[i].v.v * compareThings(getDotValue(a, criteria[i].k),
                                         getDotValue(b, criteria[i].k))
  ELSE compare(criteria, i + 1, a, b)

\* An element put before the elements of a sorted array that it compares
\* equal to
insert_BeforeEqual(array, el, criteria) ==
  SelectSeq(array, LAMBDA x : compare(criteria, 1, x, el) < 0) \o <<el>>
    \o SelectSeq(array, LAMBDA x : compare(criteria, 1, x, el) >= 0)

\* An element put in its place in a sorted array: after the elements that are
\* not greater
insert(array, el, criteria) ==
  SelectSeq(array, LAMBDA x : compare(criteria, 1, x, el) <= 0) \o <<el>>
    \o SelectSeq(array, LAMBDA x : compare(criteria, 1, x, el) > 0)

\* res.sort(comparator) on the first n elements of res: Array.prototype.sort
\* is stable
RECURSIVE sort(_, _, _)
sort(res, n, criteria) ==
  IF n = 0 THEN <<>> ELSE insert(sort(res, n - 1, criteria), res[n], criteria)

\* res.slice(0, limit)
slice_NoSkip(res, skip, limit) == SubSeq(res, 1, Min2(limit, Len(res)))

\* res.slice(skip, skip + limit)
slice(res, skip, limit) == SubSeq(res, skip + 1, Min2(skip + limit, Len(res)))

\* The sorting of _exec, then its limit and its skip
sortedAndSliced(this, res) ==
  IF this.sort = Undefined THEN res
  ELSE slice(sort(res, Len(res), this.sort.v),
             IF falsy(this.skip) THEN 0 ELSE this.skip.v,
             IF falsy(this.limit) THEN Len(res) ELSE this.limit.v)

\* The candidates of the datastore as project leaves them
leftIn(candidates, res, left) ==
  [j \in 1..Len(candidates) |->
     IF \E i \in 1..Len(res) : res[i] = candidates[j]
       THEN left[CHOOSE i \in 1..Len(res) : res[i] = candidates[j]]
       ELSE candidates[j]]

\* What _exec hands to its callback (err and v, the documents), the
\* documents that it has selected (res before project), the projection
\* and the candidates that it found, and what project has left of the
\* cursor's projection and of the candidates
projected(this, res, p) ==
  [err |-> p.err,
   v |-> IF p.err = None THEN Arr(p.v) ELSE Undefined,
   selected |-> res,
   given |-> this.projection,
   found |-> this.candidates,
   projection |-> p.projection,
   candidates |-> leftIn(this.candidates, res, p.left)]

projectedFrom(this, res) == projected(this, res, project(this.projection, res))

selected(this, r) ==
  IF r.err # None
    THEN [err |-> r.err, v |-> Undefined, selected |-> <<>>, given |-> this.projection,
          found |-> this.candidates, projection |-> this.projection,
          candidates |-> this.candidates]
  ELSE projectedFrom(this, sortedAndSliced(this, r.v))

\* Cursor._exec(callback)
exec(this) == selected(this, forEachCandidate(this, 1, <<>>, 0))

\* The documents of a datastore: numbers for a and b, which a document need
\* not have; an empty map, a map of an empty map, or null for k
CursorDocs ==
  { Obj([_id |-> Str(1), a |-> Num(1), b |-> Num(2), k |-> EmptyObj]),
    Obj([_id |-> Str(2), a |-> Num(1), b |-> Num(1), k |-> Obj([b |-> EmptyObj])]),
    Obj([_id |-> Str(3), b |-> Num(1), k |-> Null]) }

\* this.query = query || {}
CursorQueries == {Fields(<<>>), Fields(<<[k |-> <<"b">>, v |-> Num(1)]>>)}

\* Sort queries on a, on b, on both
SortQueries ==
  {Fields(<<[k |-> <<"a">>, v |-> Num(d)]>>) : d \in {1, -1}}
  \cup {Fields(<<[k |-> <<"a">>, v |-> Num(1)], [k |-> <<"b">>, v |-> Num(-1)]>>),
        Fields(<<[k |-> <<"b">>, v |-> Num(1)], [k |-> <<"a">>, v |-> Num(1)]>>)}

\* Projections: empty, of _id alone, pick-type, omit-type, mixed
Projections ==
  {Fields(<<>>),
   Fields(<<[k |-> <<"_id">>, v |-> Num(0)]>>),
   Fields(<<[k |-> <<"a">>, v |-> Num(1)]>>),
   Fields(<<[k |-> <<"a">>, v |-> Num(1)], [k |-> <<"k">>, v |-> Num(1)],
            [k |-> <<"_id">>, v |-> Num(0)]>>),
   Fields(<<[k |-> <<"_id">>, v |-> Num(1)], [k |-> <<"k">>, v |-> Num(1)]>>),
   Fields(<<[k |-> <<"k">>, v |-> Num(0)]>>),
   Fields(<<[k |-> <<"a">>, v |-> Num(0)], [k |-> <<"_id">>, v |-> Num(0)]>>),
   Fields(<<[k |-> <<"a">>, v |-> Num(1)], [k |-> <<"b">>, v |-> Num(0)]>>),
   Fields(<<[k |-> <<"_id">>, v |-> Num(0)], [k |-> <<"a">>, v |-> Num(0)],
            [k |-> <<"b">>, v |-> Num(1)]>>)}

\* new Cursor(db, query), on a datastore that holds some of the documents
CursorInit ==
  /\ cCandidates \in {c \in SeqsUpTo(CursorDocs, Cardinality(CursorDocs)) : Distinct(c)}
  /\ cQuery \in CursorQueries
  /\ cLimit = Undefined
  /\ cSkip = Undefined
  /\ cSort = Undefined
  /\ cProjection = Undefined
  /\ cOut = NotRun

\* cursor.limit(limit), in a chain that ends with exec
Limit ==
  /\ UNCHANGED notCursorVars
  /\ cOut = NotRun /\ cLimit = Undefined
  /\ \E limit \in 0..MaxLimit : cLimit' = Num(limit)
  /\ UNCHANGED <<cCandidates, cQuery, cSkip, cSort, cProjection, cOut>>

\* cursor.skip(skip)
Skip ==
  /\ UNCHANGED notCursorVars
  /\ cOut = NotRun /\ cSkip = Undefined
  /\ \E skip \in 0..MaxLimit : cSkip' = Num(skip)
  /\ UNCHANGED <<cCandidates, cQuery, cLimit, cSort, cProjection, cOut>>

\* cursor.sort(sortQuery)
Sort ==
  /\ UNCHANGED notCursorVars
  /\ cOut = NotRun /\ cSort = Undefined
  /\ cSort' \in SortQueries
  /\ UNCHANGED <<cCandidates, cQuery, cLimit, cSkip, cProjection, cOut>>

\* cursor.projection(projection)
Projection ==
  /\ UNCHANGED notCursorVars
  /\ cOut = NotRun /\ cProjection = Undefined
  /\ cProjection' \in Projections
  /\ UNCHANGED <<cCandidates, cQuery, cLimit, cSkip, cSort, cOut>>

\* cursor.exec(callback), once the executor runs _exec; the cursor can be
\* executed again
Exec ==
  /\ UNCHANGED notCursorVars
  /\ \E out \in {exec(Cursor)} :
       /\ cOut' = out
       /\ cProjection' = out.projection
       /\ cCandidates' = out.candidates
  /\ UNCHANGED <<cQuery, cLimit, cSkip, cSort>>

CursorNext == Limit \/ Skip \/ Sort \/ Projection \/ Exec

InitCursor ==
  CursorInit /\ StorageParked /\ IndexParked /\ ExecutorInit /\ ModifyParked /\ CompareParked
  /\ DocumentParked

SpecCursor == InitCursor /\ [][CursorNext]_vars

(***************************************************************************)
(* storage.flushToStorage: the error handed to its callback (None when it  *)
(* reports success).  eOpen, eFsync, eClose are the errors of fs.open,     *)
(* fs.fsync and fs.close (None when they succeed).                         *)
(***************************************************************************)
FlushFailed == "Failed to flush to storage"

\* The error of fs.fsync or fs.close handed on as it is
flushToStorage_Unwrapped(isDir, onWindows, eOpen, eFsync, eClose) ==
  IF isDir /\ onWindows THEN None
  ELSE IF eOpen # None THEN eOpen
  ELSE IF eFsync # None THEN eFsync
  ELSE eClose

flushToStorage(isDir, onWindows, eOpen, eFsync, eClose) ==
  IF isDir /\ onWindows THEN None
  ELSE IF eOpen # None THEN eOpen
  ELSE IF eFsync # None \/ eClose # None THEN FlushFailed
  ELSE None

IoErrors == {None, "EIO"}

\* The fs calls that flushToStorage makes, each with the error it gives:
\* none for a directory on Windows, fs.open alone when it fails, and fs.open,
\* fs.fsync and fs.close otherwise, fs.close being called whatever fs.fsync gave
fsCalls(isDir, onWindows, eOpen, eFsync, eClose) ==
  IF isDir /\ onWindows THEN <<>>
  ELSE IF eOpen # None THEN <<[call |-> "open", err |-> eOpen]>>
  ELSE <<[call |-> "open", err |-> None], [call |-> "fsync", err |-> eFsync],
         [call |-> "close", err |-> eClose]>>

(***************************************************************************)
(* storage.ensureDatafileIntegrity: the files it leaves, given the files   *)
(* it finds and the error (or None) of the one fs call it makes.           *)
(***************************************************************************)
ensureDatafileIntegrity_KeepsTemp(f, t, ioErr) ==
  IF f.e THEN [file |-> f, temp |-> t, err |-> None]
  ELSE IF ~t.e
    THEN IF ioErr = None THEN [file |-> Holding(<<>>), temp |-> t, err |-> None]
         ELSE [file |-> f, temp |-> t, err |-> ioErr]
    ELSE IF ioErr = None THEN [file |-> t, temp |-> t, err |-> None]
         ELSE [file |-> f, temp |-> t, err |-> ioErr]

ensureDatafileIntegrity_PrefersTemp(f, t, ioErr) ==
  IF t.e
    THEN IF ioErr = None THEN [file |-> t, temp |-> Absent, err |-> None]
         ELSE [file |-> f, temp |-> t, err |-> ioErr]
    ELSE IF f.e THEN [file |-> f, temp |-> t, err |-> None]
    ELSE IF ioErr = None THEN [file |-> Holding(<<>>), temp |-> t, err |-> None]
         ELSE [file |-> f, temp |-> t, err |-> ioErr]

ensureDatafileIntegrity(f, t, ioErr) ==
  IF f.e THEN [file |-> f, temp |-> t, err |-> None]           \* Write was successful
  ELSE IF ~t.e
    THEN \* New database: writeFile(filename, '')
         IF ioErr = None THEN [file |-> Holding(<<>>), temp |-> t, err |-> None]
         ELSE [file |-> f, temp |-> t, err |-> ioErr]
    ELSE \* rename(tempFilename, filename)
         IF ioErr = None THEN [file |-> t, temp |-> Absent, err |-> None]
         ELSE [file |-> f, temp |-> t, err |-> ioErr]

(***************************************************************************)
(* Storage actions                                                         *)
(***************************************************************************)
Running == pc \in {"flushDir1", "flushTarget", "openTemp", "writeTemp",
                   "flushTemp", "rename", "flushDir2"}

StorageInit ==
  /\ file = Absent
  /\ temp = Absent
  /\ pc = "idle"
  /\ data = <<>>
  /\ written = 0
  /\ pre = Absent
  /\ crashedAt = None
  /\ cbErr = None
  /\ cbCount = 0
  /\ win \in BOOLEAN
  /\ lastOp = None
  /\ ediPre = NoFiles
  /\ ediRun = 0
  /\ steps = <<>>

\* The waterfall's final callback: err => callback(err)
Finish(err) ==
  /\ pc' = "idle"
  /\ cbErr' = err
  /\ cbCount' = cbCount + 1
  /\ lastOp' = "crashSafeWriteFile"
  /\ ediRun' = 0

\* The next step run whatever the step gave
StepTo_Regardless(next, err) ==
  pc' = next /\ UNCHANGED <<cbErr, cbCount, lastOp, ediRun>>

\* A step of the waterfall that ended with error err: the next step runs
\* only when err is None, otherwise the final callback is called.
StepTo(next, err) ==
  IF err = None
    THEN pc' = next /\ UNCHANGED <<cbErr, cbCount, lastOp, ediRun>>
    ELSE Finish(err)

\* A step of the waterfall has ended: the fs calls it made and the error it
\* gave its cb
Ended(step, isDir, fs, err) ==
  steps' = Append(steps, [step |-> step, isDir |-> isDir, fs |-> fs, err |-> err])

\* A step that is flushToStorage has ended
Flushed(step, isDir, eOpen, eFsync, eClose) ==
  Ended(step, isDir, fsCalls(isDir, win, eOpen, eFsync, eClose),
        flushToStorage(isDir, win, eOpen, eFsync, eClose))

\* storage.crashSafeWriteFile(filename, data, callback) is called
CrashSafeWriteFile ==
  /\ UNCHANGED notStorageVars
  /\ pc = "idle"
  /\ \E d \in Contents : data' = d
  /\ pc' = "flushDir1"
  /\ written' = 0
  /\ pre' = file
  /\ crashedAt' = None
  /\ cbCount' = 0
  /\ cbErr' = None
  /\ lastOp' = None
  /\ ediPre' = NoFiles
  /\ ediRun' = 0
  /\ steps' = <<>>
  /\ UNCHANGED <<file, temp, win>>

\* step 1: flushToStorage({ filename: dirname, isDir: true })
FlushDir1 ==
  /\ UNCHANGED notStorageVars
  /\ pc = "flushDir1"
  /\ \E eo \in IoErrors, ef \in IoErrors, ec \in IoErrors :
       /\ StepTo("flushTarget", flushToStorage(TRUE, win, eo, ef, ec))
       /\ Flushed("flushDir1", TRUE, eo, ef, ec)
  /\ UNCHANGED <<file, temp, data, written, pre, crashedAt, win, ediPre>>

\* step 2: exists(filename) ? flushToStorage(filename) : cb()
FlushTarget ==
  /\ UNCHANGED notStorageVars
  /\ pc = "flushTarget"
  /\ IF file.e
       THEN \E eo \in IoErrors, ef \in IoErrors, ec \in IoErrors :
              /\ StepTo("openTemp", flushToStorage(FALSE, win, eo, ef, ec))
              /\ Flushed("flushTarget", FALSE, eo, ef, ec)
       ELSE StepTo("openTemp", None) /\ Ended("flushTarget", FALSE, <<>>, None)
  /\ UNCHANGED <<file, temp, data, written, pre, crashedAt, win, ediPre>>

\* step 3: writeFile(tempFilename, data) opens the temp file with flag 'w'
\* (created if missing, truncated otherwise) ...
OpenTemp ==
  /\ UNCHANGED notStorageVars
  /\ pc = "openTemp"
  /\ \E e \in IoErrors :
       IF e = None
         THEN /\ temp' = Holding(<<>>)
              /\ written' = 0
              /\ pc' = "writeTemp"
              /\ UNCHANGED <<cbErr, cbCount, lastOp, ediRun, steps>>
         ELSE /\ Finish(e)
              /\ Ended("writeTemp", FALSE, <<[call |-> "writeFile", err |-> e]>>, e)
              /\ UNCHANGED <<temp, written>>
  /\ UNCHANGED <<file, data, pre, crashedAt, win, ediPre>>

\* ... and writes data to it, one piece after the other
WriteTemp ==
  /\ UNCHANGED notStorageVars
  /\ pc = "writeTemp"
  /\ \E e \in IoErrors :
       IF e # None
         THEN /\ Finish(e)
              /\ Ended("writeTemp", FALSE, <<[call |-> "writeFile", err |-> e]>>, e)
              /\ UNCHANGED <<temp, written>>
         ELSE IF written < Len(data)
           THEN /\ \E n \in (written + 1)..Len(data) :
                     /\ temp' = Holding(SubSeq(data, 1, n))
                     /\ written' = n
                /\ UNCHANGED <<pc, cbErr, cbCount, lastOp, ediRun, steps>>
           ELSE /\ pc' = "flushTemp"
                /\ Ended("writeTemp", FALSE, <<[call |-> "writeFile", err |-> None]>>, None)
                /\ UNCHANGED <<temp, written, cbErr, cbCount, lastOp, ediRun>>
  /\ UNCHANGED <<file, data, pre, crashedAt, win, ediPre>>

\* step 4: flushToStorage(tempFilename)
FlushTemp ==
  /\ UNCHANGED notStorageVars
  /\ pc = "flushTemp"
  /\ \E eo \in IoErrors, ef \in IoErrors, ec \in IoErrors :
       /\ StepTo("rename", flushToStorage(FALSE, win, eo, ef, ec))
       /\ Flushed("flushTemp", FALSE, eo, ef, ec)
  /\ UNCHANGED <<file, temp, data, written, pre, crashedAt, win, ediPre>>

\* step 5: rename(tempFilename, filename)
Rename ==
  /\ UNCHANGED notStorageVars
  /\ pc = "rename"
  /\ \E e \in IoErrors :
       /\ Ended("rename", FALSE, <<[call |-> "rename", err |-> e]>>, e)
       /\ IF e = None
            THEN /\ file' = temp
                 /\ temp' = Absent
                 /\ pc' = "flushDir2"
                 /\ UNCHANGED <<cbErr, cbCount, lastOp, ediRun>>
            ELSE /\ Finish(e)
                 /\ UNCHANGED <<file, temp>>
  /\ UNCHANGED <<data, written, pre, crashedAt, win, ediPre>>

\* step 6: flushToStorage({ filename: dirname, isDir: true }), then callback(err)
FlushDir2 ==
  /\ UNCHANGED notStorageVars
  /\ pc = "flushDir2"
  /\ \E eo \in IoErrors, ef \in IoErrors, ec \in IoErrors :
       /\ Finish(flushToStorage(TRUE, win, eo, ef, ec))
       /\ Flushed("flushDir2", TRUE, eo, ef, ec)
  /\ UNCHANGED <<file, temp, data, written, pre, crashedAt, win, ediPre>>

\* The process is killed while crashSafeWriteFile runs: the files stay as
\* the fs calls made so far left them and the callback is never called.
Crash ==
  /\ UNCHANGED notStorageVars
  /\ Running
  /\ crashedAt' = pc
  /\ pc' = "crashed"
  /\ lastOp' = "crash"
  /\ ediRun' = 0
  /\ ediPre' = NoFiles
  /\ UNCHANGED <<file, temp, data, written, pre, cbErr, cbCount, win, steps>>

\* storage.ensureDatafileIntegrity(filename, callback), on open
EnsureDatafileIntegrity ==
  /\ UNCHANGED notStorageVars
  /\ pc \in {"idle", "crashed", "opened"}
  /\ \E e \in IoErrors :
       LET r == ensureDatafileIntegrity(file, temp, e)
       IN  /\ file' = r.file
           /\ temp' = r.temp
           /\ cbErr' = r.err
           /\ ediRun' = IF r.err = None THEN (IF ediRun < 2 THEN ediRun + 1 ELSE 2) ELSE 0
           /\ pc' = IF pc = "idle" THEN "idle"
                    ELSE IF r.err = None THEN "opened" ELSE pc
  /\ ediPre' = [file |-> file, temp |-> temp]
  /\ lastOp' = "ensureDatafileIntegrity"
  /\ IF pc = "idle"
       THEN data' = <<>> /\ written' = 0 /\ pre' = Absent /\ cbCount' = 0 /\ steps' = <<>>
       ELSE UNCHANGED <<data, written, pre, cbCount, steps>>
  /\ UNCHANGED <<crashedAt, win>>

\* A new process uses the datafile after it was opened
Reopen ==
  /\ UNCHANGED notStorageVars
  /\ pc = "opened"
  /\ pc' = "idle"
  /\ crashedAt' = None
  /\ lastOp' = None
  /\ ediRun' = 0
  /\ ediPre' = NoFiles
  /\ data' = <<>> /\ written' = 0 /\ pre' = Absent /\ cbCount' = 0 /\ cbErr' = None
  /\ steps' = <<>>
  /\ UNCHANGED <<file, temp, win>>

\* storage.ensureFileDoesntExist(filename, callback)
EnsureFileDoesntExist ==
  /\ UNCHANGED notStorageVars
  /\ pc = "idle"
  /\ \E e \in IoErrors :
       IF ~file.e THEN cbErr' = None /\ file' = file
       ELSE IF e = None THEN cbErr' = None /\ file' = Absent
       ELSE cbErr' = e /\ file' = file
  /\ lastOp' = "ensureFileDoesntExist"
  /\ ediRun' = 0
  /\ ediPre' = NoFiles
  /\ data' = <<>> /\ written' = 0 /\ pre' = Absent /\ cbCount' = 0 /\ steps' = <<>>
  /\ UNCHANGED <<temp, pc, crashedAt, win>>

StorageNext ==
  \/ CrashSafeWriteFile
  \/ FlushDir1
  \/ FlushTarget
  \/ OpenTemp
  \/ WriteTemp
  \/ FlushTemp
  \/ Rename
  \/ FlushDir2
  \/ Crash
  \/ EnsureDatafileIntegrity
  \/ Reopen
  \/ EnsureFileDoesntExist

InitStorage ==
  StorageInit /\ IndexParked /\ ExecutorInit /\ ModifyParked /\ CursorParked /\ CompareParked
  /\ DocumentParked

SpecStorage == InitStorage /\ [][StorageNext]_vars

(***************************************************************************)
(* The index, driven by its callers                                        *)
(***************************************************************************)
\* The documents given to the index: two with the same key, two without the
\* field, array keys with a repeated element and with elements of two types
DocPool ==
  { Obj([a |-> Num(1), tf |-> Num(1)]),
    Obj([a |-> Num(2), tf |-> Num(2)]),
    Obj([a |-> Num(3), tf |-> Num(1)]),
    Obj([a |-> Num(4)]),
    Obj([a |-> Num(5)]),
    Obj([a |-> Num(6), tf |-> Arr(<<Num(1), Num(1)>>)]),
    Obj([a |-> Num(7), tf |-> Arr(<<Str(1), Num(2), Num(1), Num(2)>>)]),
    Obj([a |-> Num(8), tf |-> Arr(<<>>)]) }

Pairs(os, ns) == [i \in 1..Len(os) |-> [oldDoc |-> os[i], newDoc |-> ns[i]]]

\* new Index({ fieldName: 'tf', unique, sparse })
IndexInit ==
  /\ idxTree = {}
  /\ idxOptions \in [unique : BOOLEAN, sparse : BOOLEAN]
  /\ idxStored = {}
  /\ idxLast = NoCall

\* The documents held after a call: those given, less those taken away; as
\* before when the call throws
Held(os, ns, err) ==
  IF err = None THEN (idxStored \ Range(os)) \cup Range(ns) ELSE idxStored

\* The call op(os, ns) gives r
Returns(op, os, ns, r) ==
  /\ idxTree' = r.tree
  /\ idxStored' = Held(os, ns, r.err)
  /\ idxLast' = [op |-> op, olds |-> os, news |-> ns, err |-> r.err, before |-> idxTree]
  /\ UNCHANGED idxOptions

\* revertUpdate of the last update gives r
Reverted(r) ==
  /\ idxTree' = r.tree
  /\ idxStored' = Held(idxLast.news, idxLast.olds, r.err)
  /\ idxLast' = [idxLast EXCEPT !.op = "revertUpdate", !.err = r.err]
  /\ UNCHANGED idxOptions

\* idx.insert(doc)
IndexInsert ==
  /\ UNCHANGED notIndexVars
  /\ idxLast.op = "none"
  /\ \E doc \in DocPool :
       /\ Cardinality(idxStored \cup {doc}) <= MaxStored
       /\ Returns("insert", <<>>, <<doc>>, insertDoc(idxTree, doc, idxOptions))

\* idx.insert([doc, ...])
IndexInsertMultiple ==
  /\ UNCHANGED notIndexVars
  /\ idxLast.op = "none"
  /\ \E docs \in Batches(DocPool, MaxBatch) :
       /\ Cardinality(idxStored \cup Range(docs)) <= MaxStored
       /\ Returns("insertMultiple", <<>>, docs,
                  insertMultipleDocs(idxTree, docs, idxOptions))

\* idx.remove(doc) and idx.remove([doc, ...]), of documents of the index
IndexRemove ==
  /\ UNCHANGED notIndexVars
  /\ idxLast.op = "none"
  /\ \E docs \in Batches(idxStored, MaxBatch) :
       /\ docs # <<>> /\ Distinct(docs)
       /\ Returns("remove", docs, <<>>,
                  Ok(removeDocs(idxTree, docs, Len(docs), idxOptions)))

\* idx.update(oldDoc, newDoc), oldDoc a document of the index
IndexUpdate ==
  /\ UNCHANGED notIndexVars
  /\ idxLast.op = "none"
  /\ \E oldDoc \in idxStored, newDoc \in DocPool :
       Returns("update", <<oldDoc>>, <<newDoc>>,
               updateDoc(idxTree, oldDoc, newDoc, idxOptions))

\* idx.update([{ oldDoc, newDoc }, ...]), the oldDocs distinct documents of
\* the index
IndexUpdateMultiple ==
  /\ UNCHANGED notIndexVars
  /\ idxLast.op = "none"
  /\ \E os \in Batches(idxStored, MaxBatch), ns \in Batches(DocPool, MaxBatch) :
       /\ Len(os) = Len(ns) /\ Distinct(os)
       /\ Returns("updateMultiple", os, ns,
                  updateMultipleDocs(idxTree, Pairs(os, ns), idxOptions))

\* idx.revertUpdate(...) with the arguments of the update that just returned
IndexRevertUpdate ==
  /\ UNCHANGED notIndexVars
  /\ idxLast.op \in {"update", "updateMultiple"}
  /\ idxLast.err = None
  /\ Reverted(IF idxLast.op = "update"
                THEN revertUpdate(idxTree, idxLast.olds[1], idxLast.news[1], idxOptions)
                ELSE revertUpdateMultipleDocs(idxTree, Pairs(idxLast.olds, idxLast.news),
                                              idxOptions))

\* The caller is done with the call
IndexReturn ==
  /\ UNCHANGED notIndexVars
  /\ idxLast.op # "none"
  /\ idxLast' = NoCall
  /\ UNCHANGED <<idxTree, idxOptions, idxStored>>

IndexNext ==
  \/ IndexInsert
  \/ IndexInsertMultiple
  \/ IndexRemove
  \/ IndexUpdate
  \/ IndexUpdateMultiple
  \/ IndexRevertUpdate
  \/ IndexReturn

InitIndex ==
  IndexInit /\ StorageParked /\ ExecutorInit /\ ModifyParked /\ CursorParked /\ CompareParked
  /\ DocumentParked

SpecIndex == InitIndex /\ [][IndexNext]_vars

(***************************************************************************)
(* Storage claims                                                          *)
(***************************************************************************)
EDI == "ensureDatafileIntegrity"

\* The datafile was reopened with success after a rewrite was killed
Recovered == pc = "opened" /\ lastOp = EDI /\ cbErr = None /\ crashedAt # None

\* C1: after crashSafeWriteFile(filename, D) is killed at any point, whatever
\* the two files held before, ensureDatafileIntegrity leaves `filename`
\* holding either its complete pre-rewrite content (nothing, so an empty
\* file, when it did not exist) or exactly D, never a partial content.
C1_NeverPartial ==
  Recovered =>
    \/ file = Holding(data)
    \/ file = pre
    \/ ~pre.e /\ file = Holding(<<>>)

\* C2 as claimed: killed after step 3 (temp written, not renamed) with an
\* existing datafile, reopening leaves the pre-rewrite content and no temp
\* file; killed after step 5 (renamed), it leaves the post-rewrite content.
C2_TempDiscarded ==
  /\ Recovered /\ pre.e /\ crashedAt \in {"flushTemp", "rename"}
       => file = pre /\ ~temp.e
  /\ Recovered /\ pre.e /\ crashedAt = "flushDir2"
       => file = Holding(data)

\* C2 amended: killed after step 3 with an existing datafile, reopening
\* leaves the pre-rewrite content in the datafile and leaves the temp file
\* in place, still holding D; killed after step 5, the datafile holds D and
\* there is no temp file.
C2_TempKept ==
  /\ Recovered /\ pre.e /\ crashedAt \in {"flushTemp", "rename"}
       => file = pre /\ temp = Holding(data)
  /\ Recovered /\ pre.e /\ crashedAt = "flushDir2"
       => file = Holding(data) /\ ~temp.e

C2_Witness ==
  /\ Recovered /\ pre.e /\ crashedAt = "rename"
  /\ pre.c # data /\ file = pre /\ temp = Holding(data)

\* C3: ensureDatafileIntegrity has three outcomes: `filename` exists and no
\* file changes; else `filename~` exists and is renamed to `filename`; else
\* `filename` is created empty.  Whenever it succeeds `filename` exists, and
\* a second call changes nothing.
C3_ThreeOutcomes ==
  lastOp = EDI =>
    /\ ediPre.file.e => cbErr = None /\ file = ediPre.file /\ temp = ediPre.temp
    /\ ~ediPre.file.e /\ ediPre.temp.e /\ cbErr = None
         => file = ediPre.temp /\ temp = Absent
    /\ ~ediPre.file.e /\ ~ediPre.temp.e /\ cbErr = None
         => file = Holding(<<>>) /\ temp = Absent
    /\ cbErr = None => file.e
    /\ cbErr # None => file = ediPre.file /\ temp = ediPre.temp
    /\ ediRun >= 2 => file = ediPre.file /\ temp = ediPre.temp

C3_Witness ==
  /\ lastOp = EDI /\ cbErr = None
  /\ ~ediPre.file.e /\ ediPre.temp.e /\ Len(ediPre.temp.c) > 0
  /\ file = ediPre.temp /\ ~temp.e

(***************************************************************************)
(* Index claims                                                            *)
(***************************************************************************)
\* The value of the indexed field as the caller reads it off the document
Field(doc) == IF "tf" \in DOMAIN doc.v THEN doc.v.tf ELSE Undefined

\* The keys the caller expects a document under
Keys(doc) ==
  IF isArray(Field(doc)) THEN Range(Field(doc).v)
  ELSE IF Field(doc) = Undefined /\ idxOptions.sparse THEN {}
  ELSE {Field(doc)}

KeysIn(tree) == {e[1] : e \in tree}

KeyUniverse == {Undefined, Num(1), Num(2), Num(3), Str(1), Str(2)}

\* docs[i] cannot join a unique index that holds tree and docs[1..i-1]
Clashes(docs, i, tree) ==
  \/ Keys(docs[i]) \cap KeysIn(tree) # {}
  \/ \E j \in 1..(i - 1) : Keys(docs[i]) \cap Keys(docs[j]) # {}

Inserting == idxLast.op \in {"insert", "insertMultiple"}
Updating == idxLast.op \in {"update", "updateMultiple"}

\* The entries of the documents the update leaves alone
Kept == {e \in idxLast.before : e[2] \notin Range(idxLast.olds)}

\* C4: Index.insert of one document or an array of documents is all or
\* nothing.  In a unique index it throws exactly when a document of the batch
\* has a key that the index or an earlier document of the batch already has;
\* when it throws, the error is uniqueViolated and the index is what it was
\* before the call.
C4_InsertAllOrNothing ==
  Inserting =>
    /\ idxLast.err \in {None, UniqueViolated}
    /\ idxLast.err # None => idxTree = idxLast.before
    /\ idxLast.err # None <=>
         /\ idxOptions.unique
         /\ \E i \in 1..Len(idxLast.news) : Clashes(idxLast.news, i, idxLast.before)

\* A batch whose first document went in and whose second document is an
\* array, one element of which went in before a later one was refused
C4_Witness ==
  /\ idxLast.op = "insertMultiple"
  /\ idxLast.err = UniqueViolated
  /\ Len(idxLast.news) = 2
  /\ Keys(idxLast.news[1]) # {}
  /\ ~Clashes(idxLast.news, 1, idxLast.before)
  /\ isArray(Field(idxLast.news[2]))
  /\ Field(idxLast.news[2]).v[1] \notin KeysIn(idxLast.before) \cup Keys(idxLast.news[1])

\* C5: Index.update, of one pair or of a batch, is transactional.  In a
\* unique index it throws exactly when a new document has a key that a
\* document left in the index or an earlier new document has; when it throws,
\* the error is uniqueViolated and the index is what it was before the call.
\* An update that keeps the key in a unique index does not throw.
C5_UpdateTransactional ==
  Updating =>
    /\ idxLast.err \in {None, UniqueViolated}
    /\ idxLast.err # None => idxTree = idxLast.before
    /\ idxLast.err # None <=>
         /\ idxOptions.unique
         /\ \E i \in 1..Len(idxLast.news) : Clashes(idxLast.news, i, Kept)
    /\ (idxLast.op = "update" /\ Keys(idxLast.olds[1]) = Keys(idxLast.news[1]))
         => idxLast.err = None

\* A batch whose first new document went in before the second was refused
C5_Witness ==
  /\ idxLast.op = "updateMultiple"
  /\ idxLast.err = UniqueViolated
  /\ Len(idxLast.news) = 2
  /\ Keys(idxLast.news[1]) # {}
  /\ Keys(idxLast.olds[1]) # {}
  /\ ~Clashes(idxLast.news, 1, Kept)

\* C6: in a unique non-sparse index no key has two documents; a document
\* without the field is refused when another one is held; and a document is
\* refused only for a key that a document of the index has, never for the
\* repeated elements of its own array.
C6_UniqueKeys ==
  (idxOptions.unique /\ ~idxOptions.sparse) =>
    /\ \A e1 \in idxTree, e2 \in idxTree : e1[1] = e2[1] => e1[2] = e2[2]
    /\ \A k \in KeyUniverse : Cardinality(getMatching(idxTree, k)) <= 1
    /\ idxLast.op = "insert" =>
         /\ (/\ Field(idxLast.news[1]) = Undefined
             /\ \E d \in idxStored \ {idxLast.news[1]} : Field(d) = Undefined)
              => idxLast.err = UniqueViolated
         /\ idxLast.err # None =>
              Keys(idxLast.news[1]) \cap KeysIn(idxLast.before) # {}

\* A document whose array repeats an element has joined a unique non-sparse
\* index that holds another document
C6_Witness ==
  /\ idxOptions.unique /\ ~idxOptions.sparse
  /\ idxLast.op = "insert"
  /\ idxLast.err = None
  /\ idxLast.before # {}
  /\ isArray(Field(idxLast.news[1]))
  /\ Cardinality(Keys(idxLast.news[1])) < Len(Field(idxLast.news[1]).v)

\* C7: for every key k, getMatching(k) is the set of the documents held by
\* the index whose field is k or whose array field contains k; a document
\* without the field is under the undefined key unless the index is sparse.
C7_GetMatchingExact ==
  \A k \in KeyUniverse :
    getMatching(idxTree, k) = {d \in idxStored : k \in Keys(d)}

\* A document under several keys has been removed from an index that still
\* holds a document under one of these keys
C7_Witness ==
  /\ idxLast.op = "remove"
  /\ Len(idxLast.olds) = 1
  /\ Cardinality(Keys(idxLast.olds[1])) > 1
  /\ KeysIn(idxTree) \cap Keys(idxLast.olds[1]) # {}

Earlier(j) == 1..(j - 1)

WritesBefore(j) == {i \in Earlier(j) : exOps[i].kind = "write"}

ReadsSeeEarlierWrites ==
  \A r \in exDone : exOps[r].kind = "read" => exSeen[r] = WritesBefore(r)

\* C9 as stated: never two tasks in flight, a task starts only after every
\* task pushed before it has called back, and a find sees exactly the writes
\* pushed before it.
C9_SubmissionOrder ==
  /\ Cardinality(exInFlight) <= 1
  /\ \A j \in exStarted : Earlier(j) \subseteq exDone
  /\ ReadsSeeEarlierWrites

\* C9: never two tasks in flight; a task starts only after every task pushed
\* before it has called back, except that a loadDatabase goes ahead of the
\* tasks that were in the buffer when it was pushed; a find sees exactly the
\* writes pushed before it.
C9_SubmissionOrderButLoad ==
  /\ Cardinality(exInFlight) <= 1
  /\ \A j \in exStarted : Earlier(j) \subseteq (exDone \cup exOps[j].over)
  /\ \A j \in 1..Len(exOps) : exOps[j].kind # "load" => exOps[j].over = {}
  /\ ReadsSeeEarlierWrites

\* A find pushed between two writes, all three held in the buffer until a
\* loadDatabase pushed after them had called back, has run
C9_Witness ==
  \E w1 \in exDone, r \in exDone, w2 \in exDone, l \in exDone :
    /\ w1 < r /\ r < w2 /\ w2 < l
    /\ exOps[w1].kind = "write" /\ exOps[r].kind = "read" /\ exOps[w2].kind = "write"
    /\ exOps[l].kind = "load" /\ exOps[l].over = {w1, r, w2}

(***************************************************************************)
(* modify claims                                                           *)
(***************************************************************************)
Ran == mResult.err # "notRun"

\* The update query names _id, as a field or as the field of its modifier
ReplacesId(value) ==
  \E i \in 1..Len(mUpdateQuery) : mUpdateQuery[i] = [k |-> "_id", v |-> value]

Modifies(modifier, path, value) ==
  mUpdateQuery = <<[k |-> modifier, v |-> Fields(<<[k |-> path, v |-> value]>>)]>>

\* The update, done, would leave another _id or none
ChangesId ==
  \/ \E value \in ModifyValues : value # mObj.v["_id"] /\ ReplacesId(value)
  \/ \E value \in ModifyValues :
       \/ value # mObj.v["_id"] /\ Modifies("$set", <<"_id">>, value)
       \/ Modifies("$unset", <<"_id">>, value)
       \/ Modifies("$push", <<"_id">>, value)
       \/ Modifies("$addToSet", <<"_id">>, value)
       \/ Modifies("$pop", <<"_id">>, value)
       \/ /\ mObj.v["_id"].t = "number" /\ value.t = "number" /\ value.v # 0
          /\ Modifies("$inc", <<"_id">>, value)
       \/ /\ mObj.v["_id"].t = value.t /\ value.v > mObj.v["_id"].v
          /\ Modifies("$max", <<"_id">>, value)
       \/ /\ mObj.v["_id"].t = value.t /\ value.v < mObj.v["_id"].v
          /\ Modifies("$min", <<"_id">>, value)

\* The update is one modifier on a.$.b, with a query, of a document whose a is
\* an array, and modify has returned a document
Positional ==
  /\ Ran
  /\ mResult.err = None
  /\ mQuery # Undefined
  /\ isArray(prop(mObj, "a"))
  /\ \E m \in ModifyModifiers, value \in ModifyValues : Modifies(m, <<"a", "$", "b">>, value)

\* The elements of a that individually satisfy the query: those with which,
\* alone in the array, the document matches
Satisfying ==
  {i \in 1..Len(mObj.v["a"].v) : match(setProp(mObj, "a", Arr(<<mObj.v["a"].v[i]>>)), mQuery).v}

\* Element i of a with the modifier applied to its field b
Applied(i) ==
  applyModifier(mUpdateQuery[1].k, mObj.v["a"].v[i], <<"b">>, mUpdateQuery[1].v.v[1].v,
                Undefined).v

\* The array a of the returned document is a with the modifier applied to
\* the elements of these indexes and to no other
AppliedTo(indexes) ==
  /\ isArray(mResult.v.v["a"])
  /\ Len(mResult.v.v["a"].v) = Len(mObj.v["a"].v)
  /\ \A i \in 1..Len(mObj.v["a"].v) :
       mResult.v.v["a"].v[i] = IF i \in indexes THEN Applied(i) ELSE mObj.v["a"].v[i]

\* C17 as stated: with a path through $ the modifier is applied to the
\* elements that individually satisfy the query and to no other, whether they
\* are none, some or all of the array.
C17_OnlySatisfying == Positional => AppliedTo(Satisfying)

\* C17: with a path through $ the modifier is applied to the elements that
\* individually satisfy the query and to no other when there is such an
\* element; when there is none it is applied to every element of the array.
C17_SatisfyingOrAll ==
  Positional =>
    AppliedTo(IF Satisfying = {} THEN 1..Len(mObj.v["a"].v) ELSE Satisfying)

\* A positional update has changed one element of the array and left
\* another, which does not satisfy the query, as it was
C17_Witness ==
  /\ Positional
  /\ Satisfying # {}
  /\ \E i \in Satisfying : mResult.v.v["a"].v[i] # mObj.v["a"].v[i]
  /\ \E i \in 1..Len(mObj.v["a"].v) : i \notin Satisfying

(***************************************************************************)
(* Comparison and matching claims                                          *)
(***************************************************************************)
\* C18: $lt, $lte, $gt and $gte give false unless the value of the document
\* and the value of the query are both strings, both numbers or both dates.
C18_FalseUnlessSameKind ==
  (cmpOut.err = None /\ cmpOut.op \in {"$lt", "$lte", "$gt", "$gte"} /\ cmpOut.r.v)
    => (cmpA.t = cmpB.t /\ cmpA.t \in {"string", "number", "date"})

Matching == cmpOut.err = None /\ cmpOut.op = "matchQueryPart"

\* The operator of the query value and its operand (none for a plain value)
Operator == IF cmpOut.q.t = "fields" THEN cmpOut.q.v[1].k ELSE None
Operand == IF cmpOut.q.t = "fields" THEN cmpOut.q.v[1].v ELSE Undefined

\* At least one element of the array A matches the query value
SomeElementMatches ==
  \E i \in 1..Len(cmpA.v) :
    LET r == matchQueryPart(Obj([k |-> cmpA.v[i]]), <<"k">>, cmpOut.q, FALSE)
    IN  r.err = None /\ r.v

Compared == cmpOut.err = None /\ cmpOut.op = "compareThings"

\* undefined < null < number < string < boolean < date < array < map
TypeRank(x) ==
  CASE x.t = "undefined" -> 0
    [] x.t = "null" -> 1
    [] x.t = "number" -> 2
    [] x.t = "string" -> 3
    [] x.t = "boolean" -> 4
    [] x.t = "date" -> 5
    [] x.t = "array" -> 6
    [] x.t = "object" -> 7

\* compareThings on a, b, c: opposite signs for (a, b) and (b, a), transitive,
\* values of different types in the order of their types
Ordered ==
  /\ cmpOut.ab = -cmpOut.ba
  /\ (cmpOut.ab <= 0 /\ cmpOut.bc <= 0) => cmpOut.ac <= 0
  /\ (cmpOut.ab = 0 /\ cmpOut.bc = 0) => cmpOut.ac = 0
  /\ TypeRank(cmpA) < TypeRank(cmpB) => cmpOut.ab = -1
  /\ cmpA = cmpB => cmpOut.ab = 0

RECURSIVE HasMap(_)
HasMap(x) == isObj(x) \/ (isArray(x) /\ \E i \in 1..Len(x.v) : HasMap(x.v[i]))

RECURSIVE Shares(_)
Shares(x) ==
  \/ "id" \in DOMAIN x
  \/ isArray(x) /\ \E i \in 1..Len(x.v) : Shares(x.v[i])
  \/ isObj(x) /\ \E k \in DOMAIN x.v : Shares(x.v[k])

\* C11: the document modify returns holds no map and no array of the
\* caller's update query, so that what the caller does to them later does not
\* change the document.
C11_NoSharing == (Ran /\ mResult.err = None) => ~Shares(mResult.v)

\* C10: the document modify returns has the _id of the document it was
\* given; an update that would change, remove or replace the _id throws.
C10_IdImmutable ==
  Ran =>
    /\ mResult.err = None =>
         /\ isObj(mResult.v)
         /\ "_id" \in DOMAIN mResult.v.v
         /\ mResult.v.v["_id"] = mObj.v["_id"]
    /\ ChangesId => mResult.err \in {"You cannot change a document's _id", "You can't change a document's _id", "Can't $push an element on non-array values",
                                     "Can't $addToSet an element on non-array values", "Can't $pop an element from non-array values"}

\* modify has returned a document for an update by modifier, with the
\* positional query, that names _id without changing it
C10_Witness ==
  /\ Ran
  /\ mResult.err = None
  /\ mQuery # Undefined
  /\ \E value \in ModifyValues : Modifies("$set", <<"_id">>, value)


(***************************************************************************)
(* Cursor claims                                                           *)
(***************************************************************************)
\* exec has called back, with documents
Executed == cOut.err # "notRun"
GaveDocs == cOut.err = None

Ids(docs) == [i \in 1..Len(docs) |-> docs[i].v["_id"]]

\* M: the candidates that match the query, in scan order, sorted by the sort
\* query if there is one
Matches == SelectSeq(cCandidates, LAMBDA c : match(c, cQuery).v)
M == IF cSort = Undefined THEN Matches ELSE sort(Matches, Len(Matches), cSort.v)

\* The documents of exec are those at positions [s, s + l) of M
Positions(s, l) ==
  /\ Ids(cOut.selected) = Ids(SubSeq(M, s + 1, Min2(s + l, Len(M))))
  /\ Len(cOut.v.v) = Len(cOut.selected)
  /\ Len(cOut.v.v) = Min2(l, Max2(0, Len(M) - s))

\* C12 as stated: exec gives the elements at positions [s, s + l) of M, s the
\* skip (0 if unset) and l the limit (no limit if unset).
C12_SkipLimit ==
  GaveDocs => Positions(IF cSkip = Undefined THEN 0 ELSE cSkip.v,
                        IF cLimit = Undefined THEN Len(M) ELSE cLimit.v)

\* C12: exec gives the elements at positions [s, s + l) of M, s the skip (0
\* if unset) and l the limit; a limit of 0, like no limit, gives every
\* element from s on.
C12_SkipLimitButZero ==
  GaveDocs => Positions(IF cSkip = Undefined THEN 0 ELSE cSkip.v,
                        IF cLimit \in {Undefined, Num(0)} THEN Len(M) ELSE cLimit.v)

\* Of three sorted matching documents, skip 1 and limit 1 have given the second
C12_Witness ==
  /\ GaveDocs
  /\ cSort # Undefined /\ cSkip = Num(1) /\ cLimit = Num(1)
  /\ Len(M) = 3
  /\ Ids(cOut.selected) = <<M[2].v["_id"]>>
  /\ Ids(cOut.selected) # <<Matches[2].v["_id"]>>

\* compareThings on the values that x and y have for the i-th key of the
\* sort query
KeyCompare(i, x, y) ==
  compareThings(getDotValue(x, cSort.v[i].k), getDotValue(y, cSort.v[i].k))

\* x is not after y: the first key that tells them apart puts x first
InOrder(x, y) ==
  \A i \in 1..Len(cSort.v) :
    (\A j \in 1..(i - 1) : KeyCompare(j, x, y) = 0) => cSort.v[i].v.v * KeyCompare(i, x, y) <= 0

\* C13: the documents of a sorted exec are in the lexicographic order of the
\* keys of the sort query, 1 ascending and -1 descending by compareThings.
C13_Lexicographic ==
  (GaveDocs /\ cSort # Undefined) =>
    \A p \in 1..Len(cOut.selected), q \in 1..Len(cOut.selected) :
      p < q => InOrder(cOut.selected[p], cOut.selected[q])

\* The second key of the sort query has put first a document that the scan
\* gave second, both having the same value for the first key
C13_Witness ==
  /\ GaveDocs /\ cSort # Undefined /\ Len(cSort.v) = 2
  /\ Len(cOut.selected) = 2
  /\ KeyCompare(1, cOut.selected[1], cOut.selected[2]) = 0
  /\ KeyCompare(2, cOut.selected[1], cOut.selected[2]) # 0
  /\ Ids(Matches) = <<cOut.selected[2].v["_id"], cOut.selected[1].v["_id"]>>

\* The place of a document in the scan
ScanIndex(doc) == CHOOSE i \in 1..Len(cCandidates) : cCandidates[i].v["_id"] = doc.v["_id"]

Tie(x, y) == \A i \in 1..Len(cSort.v) : KeyCompare(i, x, y) = 0

\* C14: two documents that compare equal on every key of the sort query are
\* given in the order of the scan.
C14_Stable ==
  (GaveDocs /\ cSort # Undefined) =>
    \A p \in 1..Len(cOut.selected), q \in 1..Len(cOut.selected) :
      (p < q /\ Tie(cOut.selected[p], cOut.selected[q]))
        => ScanIndex(cOut.selected[p]) < ScanIndex(cOut.selected[q])

\* A sorted exec has given two documents that compare equal on every key,
\* after a document that the scan gave between them
C14_Witness ==
  /\ GaveDocs /\ cSort # Undefined
  /\ Len(cOut.selected) = 3
  /\ Tie(cOut.selected[2], cOut.selected[3])
  /\ ScanIndex(cOut.selected[2]) < ScanIndex(cOut.selected[1])
  /\ ScanIndex(cOut.selected[1]) < ScanIndex(cOut.selected[3])

\* The entries of the projection that exec found in the cursor, those other
\* than _id
Entries == IF cOut.given = Undefined THEN <<>> ELSE cOut.given.v
NonId == SelectSeq(Entries, LAMBDA entry : entry.k # <<"_id">>)

Mixed == \E i \in 1..Len(NonId), j \in 1..Len(NonId) : NonId[i].v # NonId[j].v

\* C15 as stated: exec calls back with an error and no documents if the
\* entries of the projection other than _id mix 1 and 0, and without error
\* if they agree.
C15_MixedOnlyFails ==
  Executed =>
    /\ Mixed => (cOut.err # None /\ cOut.v = Undefined)
    /\ ~Mixed => cOut.err = None

IdKept == \A i \in 1..Len(Entries) : Entries[i].k = <<"_id">> => Entries[i].v # Num(0)
IncludeMode == \E i \in 1..Len(NonId) : NonId[i].v = Num(1)
Named == {NonId[i].k[1] : i \in 1..Len(NonId)}

\* A map that holds nothing but such maps
RECURSIVE Hollow(_)
Hollow(x) == isObj(x) /\ \A k \in DOMAIN x.v : Hollow(x.v[k])

\* The projected document has _id, the candidate's, iff the projection does
\* not give 0 for _id, and it has the given fields of the candidate
Projects(doc, candidate, fields) ==
  /\ "_id" \in DOMAIN doc.v <=> IdKept
  /\ DOMAIN doc.v \ {"_id"} = fields \ {"_id"}
  /\ \A k \in DOMAIN doc.v : doc.v[k] = candidate.v[k]

\* C16 as stated: under a projection that is not empty a projected document
\* has _id iff the projection does not give 0 for _id, and its other fields
\* are the selected fields that the candidate has (pick-type) or the fields
\* of the candidate that are not omitted (omit-type).
C16_ExactFields ==
  (GaveDocs /\ Entries # <<>>) =>
    \A i \in 1..Len(cOut.selected) :
      Projects(cOut.v.v[i], cOut.selected[i],
               IF IncludeMode THEN Named \cap DOMAIN cOut.selected[i].v
               ELSE DOMAIN cOut.selected[i].v \ Named)

\* C16: the same, but in a pick-type projection a selected field is left
\* out if its value is a map that is empty or holds nothing but such maps; a
\* projection of _id alone is omit-type.
C16_ExactFieldsButHollow ==
  (GaveDocs /\ Entries # <<>>) =>
    \A i \in 1..Len(cOut.selected) :
      Projects(cOut.v.v[i], cOut.selected[i],
               IF IncludeMode
                 THEN {k \in Named \cap DOMAIN cOut.selected[i].v :
                         ~Hollow(cOut.selected[i].v[k])}
               ELSE DOMAIN cOut.selected[i].v \ Named)

\* A pick-type projection without _id has left out a selected field, an
\* empty map, and has kept another
C16_Witness ==
  /\ GaveDocs /\ IncludeMode /\ ~IdKept
  /\ Len(cOut.selected) > 0
  /\ "k" \in Named /\ cOut.selected[1].v["k"] = EmptyObj
  /\ DOMAIN cOut.v.v[1].v = {"a"}

(***************************************************************************)
(* Claims on $push, $addToSet and the arguments of modify                  *)
(***************************************************************************)
\* The array a of the document given to modify, empty if it has no a
Base == IF isArray(prop(mObj, "a")) THEN mObj.v["a"].v ELSE <<>>

\* a is missing or an array
Pushable == prop(mObj, "a") = Undefined \/ isArray(prop(mObj, "a"))

\* The values that are no list of values
PlainValues == ModifyValues \cup {Obj([k |-> Num(1)])}

\* The values that list values under $each
Lists == {value \in EachValues : "$each" \in DOMAIN value.v}

\* The first min(k, length), the last min(|k|, length) or none of the elements
Trimmed(s, k) ==
  IF k = 0 THEN <<>>
  ELSE IF k > 0 THEN SubSeq(s, 1, Min2(k, Len(s)))
  ELSE SubSeq(s, Len(s) - Min2(-k, Len(s)) + 1, Len(s))

\* modify has returned a document whose a is an array of these elements
Gives(elements) ==
  /\ mResult.err = None
  /\ isArray(prop(mResult.v, "a"))
  /\ mResult.v.v["a"].v = elements

\* C23: $push on a field that is missing makes the array of the value, on an
\* array it appends the value, and on a field that holds something else it
\* throws; with $each it appends the listed values in their order, and with
\* an integer $slice k it then keeps nothing for k = 0, the first
\* min(k, length) elements for k > 0 and the last min(|k|, length) for k < 0.
C23_Push ==
  Ran =>
    /\ \A value \in PlainValues :
         Modifies("$push", <<"a">>, value) =>
           IF Pushable THEN Gives(Append(Base, value))
           ELSE mResult.err = "Can't $push an element on non-array values"
    /\ \A value \in Lists :
         Modifies("$push", <<"a">>, value) =>
           IF ~Pushable THEN mResult.err = "Can't $push an element on non-array values"
           ELSE IF "$slice" \in DOMAIN value.v
             THEN Gives(Trimmed(Base \o value.v["$each"].v, value.v["$slice"].v))
           ELSE Gives(Base \o value.v["$each"].v)

\* Two values have been pushed on an array of two with $slice: -3, and the
\* last three of the four are left
C23_Witness ==
  /\ Ran
  /\ Modifies("$push", <<"a">>, Each(Arr(<<Num(1), Str(1)>>), Num(-3)))
  /\ Len(Base) = 2
  /\ Gives(<<Base[2], Num(1), Str(1)>>)

\* C24 as stated: $addToSet of a value on an array appends the value if and
\* only if no element of the array is deep-equal to it, and leaves the array
\* as it is otherwise.
C24_AddsUnlessDeepEqual ==
  Ran =>
    \A value \in PlainValues :
      (Modifies("$addToSet", <<"a">>, value) /\ isArray(prop(mObj, "a"))) =>
        Gives(IF \E i \in 1..Len(Base) : areThingsEqual(Base[i], value)
                THEN Base ELSE Append(Base, value))

\* C29 as stated: modify leaves the document, the update query and the query
\* that it is given as they were, whether it returns or throws.
C29_ArgumentsUntouched ==
  [][(~Ran /\ Ran') => (mObj' = mObj /\ mUpdateQuery' = mUpdateQuery /\ mQuery' = mQuery)]_vars

(***************************************************************************)
(* Claims on executing a cursor again and on the candidates of project     *)
(***************************************************************************)
\* C27 as stated: a cursor executed again, its query, sort, skip, limit and
\* projection not set anew, on a datastore that the execution before has
\* left as it found it, gives its callback what it gave it before.
C27_SameTwice ==
  [][(Executed /\ cOut.candidates = cOut.found /\ Executed')
       => (cOut'.err = cOut.err /\ cOut'.v = cOut.v)]_vars

\* C28 as stated: project leaves every candidate, a document of the
\* datastore, as it found it.
C28_CandidatesUntouched == Executed => cOut.candidates = cOut.found

(***************************************************************************)
(* Claim on matching a plain value                                         *)
(***************************************************************************)
\* The value of the query is a number, a string, a boolean, null or a date,
\* and { a: A } has been matched against the query { a: B }
MatchedPlain ==
  /\ cmpOut.err = None
  /\ cmpOut.op = "matchQueryPart"
  /\ cmpB.t \in {"number", "string", "boolean", "null", "date"}
  /\ cmpOut.q = cmpB

\* C30 as stated: matching a document against a query whose value for the
\* field is a plain value gives a boolean and throws nothing, whatever the
\* document holds in the field.
C30_PlainNeverThrows == MatchedPlain => cmpOut.r.err = None

(***************************************************************************)
(* Claims on flushToStorage and on the steps of crashSafeWriteFile         *)
(***************************************************************************)
\* The steps that are a call of flushToStorage that has taken place
Flushes ==
  {i \in 1..Len(steps) :
     /\ steps[i].step \in {"flushDir1", "flushTarget", "flushTemp", "flushDir2"}
     /\ (steps[i].step = "flushTarget" => steps[i].fs # <<>> \/ steps[i].err # None)}

\* The flush of a directory on Windows: no fs call, and success
Skipped(i) == steps[i].isDir /\ win

\* The errors that the fs calls of a step gave
Underlying(i) == {steps[i].fs[j].err : j \in 1..Len(steps[i].fs)} \ {None}

\* C25 as stated: flushToStorage makes no fs call and reports success for a
\* directory on Windows; every other flush hands its callback the error that
\* fs.open, fs.fsync or fs.close gave, as it is, and no error if none gave one.
C25_Unmodified ==
  \A i \in Flushes :
    IF Skipped(i) THEN steps[i].fs = <<>> /\ steps[i].err = None
    ELSE IF Underlying(i) = {} THEN steps[i].err = None
    ELSE steps[i].err \in Underlying(i)

\* C25: flushToStorage makes no fs call and reports success for a directory
\* on Windows; every other flush hands its callback the error of fs.open as
\* it is, and for an error of fs.fsync or of fs.close a new error, 'Failed to
\* flush to storage', in its place; it reports success if none gave an error.
C25_OpenUnmodified ==
  \A i \in Flushes :
    IF Skipped(i) THEN steps[i].fs = <<>> /\ steps[i].err = None
    ELSE IF Underlying(i) = {} THEN steps[i].err = None
    ELSE IF steps[i].fs[1].err # None
      THEN Len(steps[i].fs) = 1 /\ steps[i].err = steps[i].fs[1].err
    ELSE steps[i].err = FlushFailed /\ steps[i].err \notin Underlying(i)

\* The flush of the temp file has failed on fs.fsync alone, on Windows, after
\* the flush of the directory was skipped
C25_Witness ==
  /\ win
  /\ Len(steps) = 4
  /\ 1 \in Flushes /\ Skipped(1)
  /\ steps[4].fs = <<[call |-> "open", err |-> None], [call |-> "fsync", err |-> "EIO"],
                     [call |-> "close", err |-> None]>>
  /\ cbErr = FlushFailed

\* The steps of crashSafeWriteFile, in their order
Waterfall == <<"flushDir1", "flushTarget", "writeTemp", "flushTemp", "rename", "flushDir2">>

\* The positions at which a step is running
At(step) == IF step = "writeTemp" THEN {"openTemp", "writeTemp"} ELSE {step}

\* C26: the steps of crashSafeWriteFile run in their order, each after the
\* one before has given no error; the first step that gives an error is the
\* last, and the callback is called once, with that error, or with none after
\* the sixth step; the rename is attempted only with the temp file holding
\* all the data and flushed; and the datafile is what it was until the
\* rename, and all the data after it.
C26_Waterfall ==
  (Running \/ lastOp = "crashSafeWriteFile") =>
    /\ Len(steps) <= Len(Waterfall)
    /\ \A i \in 1..Len(steps) : steps[i].step = Waterfall[i]
    /\ \A i \in 1..(Len(steps) - 1) : steps[i].err = None
    /\ IF Running
         THEN /\ cbCount = 0
              /\ Len(steps) < Len(Waterfall)
              /\ pc \in At(Waterfall[Len(steps) + 1])
              /\ Len(steps) > 0 => steps[Len(steps)].err = None
         ELSE /\ cbCount = 1
              /\ Len(steps) > 0
              /\ cbErr = steps[Len(steps)].err
              /\ cbErr = None => Len(steps) = Len(Waterfall)
    /\ pc = "rename" => temp = Holding(data) /\ steps[4].fs # <<>>
    /\ file = IF Len(steps) >= 5 /\ steps[5].err = None THEN Holding(data) ELSE pre

\* The rename has failed: the callback has been called once with its error,
\* the datafile that was there is as it was, no further step has run
C26_Witness ==
  /\ lastOp = "crashSafeWriteFile"
  /\ Len(steps) = 5
  /\ steps[5].err = "EIO"
  /\ cbErr = "EIO" /\ cbCount = 1
  /\ pre.e /\ file = pre /\ temp = Holding(data) /\ data # pre.c

(***************************************************************************)
(* Claims on checkObject, serialize and deserialize                        *)
(***************************************************************************)
\* The names of x and of what it holds, each with its value
RECURSIVE Named_In(_)
Named_In(x) ==
  IF isArray(x) THEN UNION {Named_In(x.v[i]) : i \in 1..Len(x.v)}
  ELSE IF isObj(x)
    THEN {<<k, x.v[k]>> : k \in DOMAIN x.v} \cup UNION {Named_In(x.v[k]) : k \in DOMAIN x.v}
  ELSE {}

Dollar == {"$$date", "$$deleted", "$$indexCreated", "$$indexRemoved", "$numberDecimal", "$set"}

\* The encoded forms: $$date with a number, $$deleted with true,
\* $$indexCreated and $$indexRemoved
Encoded(k, v) ==
  \/ k = "$$date" /\ v.t = "number"
  \/ k = "$$deleted" /\ v = Bool(TRUE)
  \/ k \in {"$$indexCreated", "$$indexRemoved"}

Checked == dOut.err # "notRun" /\ dOut.op = "checkObject"

\* C22 as stated: checkObject throws for every document that holds, at any
\* depth, a name that begins with $ and is no encoded form, or a name with a
\* dot, and for no other document.
C22_RejectsDollarAndDot ==
  Checked =>
    (dOut.err # None <=>
       \E n \in Named_In(dDoc) : (n[1] \in Dollar /\ ~Encoded(n[1], n[2])) \/ n[1] = "a.b")

\* C22: checkObject throws for every document that holds, at any depth, a
\* name that begins with $ and is neither an encoded form nor
\* $numberDecimal, or a name with a dot, and for no other document.
C22_RejectsButNumberDecimal ==
  Checked =>
    (dOut.err # None <=>
       \E n \in Named_In(dDoc) :
         \/ n[1] \in Dollar \ {"$numberDecimal"} /\ ~Encoded(n[1], n[2])
         \/ n[1] = "a.b")

\* checkObject has thrown for a document that holds $$deleted: false in a
\* map of an array
C22_Witness ==
  /\ Checked
  /\ dDoc = Obj([_id |-> Str(1), k |-> Arr(<<Obj([x \in {"$$deleted"} |-> Bool(FALSE)])>>)])
  /\ dOut.err = "Field names cannot begin with the $ character"

\* A document of numbers, strings, booleans, null, dates, maps and arrays
\* whose names neither begin with $ nor hold a dot
Valid == \A n \in Named_In(dDoc) : n[1] \notin Dollar /\ n[1] # "a.b"

\* C21: serialize gives every valid document a text without a line feed,
\* and deserialize gives back, from that text, a document equal to it, dates
\* at any depth and of epoch 0 included.
C21_RoundTrip ==
  /\ (Valid /\ dOut.err # "notRun" /\ dOut.op = "serialize") =>
       /\ dOut.err = None
       /\ \A i \in 1..Len(dOut.text) :
            dOut.text[i].t = "string" => LineFeed \notin Range(dOut.text[i].v)
  /\ (Valid /\ dOut.err # "notRun" /\ dOut.op = "deserialize") => dOut.v = dDoc

\* A document with a date of epoch 0 in a map of an array of a map, and a
\* string that is a line feed, has been serialized and deserialized
C21_Witness ==
  /\ dOut.err = None /\ dOut.op = "deserialize"
  /\ dDoc = Obj([_id |-> Str(1),
                 k |-> Obj([a |-> Arr(<<Obj([b |-> Date(0)])>>),
                            b |-> Str(LineFeed - LetterA)])])
  /\ dOut.v = dDoc
====
